---- MODULE Spec2Model ----
(***************************************************************************)
(* License activation and device-slot engine and update resolver of the   *)
(* Macman backend (LicenseService in src/src/types/index.ts, UpdateService *)
(* in src/src/services/update.service.ts, helpers in                       *)
(* src/src/utils/licenseKey.ts).                                           *)
(*                                                                         *)
(* Storage is the pair of tables `licenses` and `activations`; a row's id  *)
(* is its index in the table (rows are never deleted).  Strings that the   *)
(* code inspects character by character (license keys) are sequences of    *)
(* one-character strings.                                                  *)
(*                                                                         *)
(* Spec      every service call runs to completion before the next starts. *)
(* SpecConc  the storage round trips of validateLicense and                *)
(*           deactivateDevice calls interleave (one step per await).       *)
(* SpecCreate  license creation through POST /admin/licenses.              *)
(* SpecUpdate  the calls of UpdateService, one at a time.                  *)
(* SpecUtil    the helpers of utils/licenseKey.ts applied to an argument.  *)
(* SpecHistory   update checks and the reports of POST /history.           *)
(* SpecDownload  releases, update checks and GET /download/:version.       *)
(* SpecAdmin     the admin routes behind requireAdminSecret.               *)
(* SpecLookup    the round trips of validateLicense calls interleaved with *)
(*               createLicense, deactivateLicense and the clock.           *)
(* SpecCompare   compareVersions and versionToBuildNumber applied to       *)
(*               versions.                                                 *)
(***************************************************************************)
EXTENDS Integers, Sequences, FiniteSets, TLC

VARIABLES
    now,          \* the clock read by `new Date()`
    licenses,     \* table License
    activations,  \* table LicenseActivation
    resp,         \* the call that completed last and its result
    calls,        \* calls in flight (SpecConc): position and local variables
    updates,      \* table Update (releases)
    updateHistory,\* table UpdateHistory
    input,        \* SpecUtil: the argument a helper of utils is applied to
    output        \* SpecUtil: what the helper returned

vars == << now, licenses, activations, resp, calls,
           updates, updateHistory, input, output >>

licenseVars == << licenses, activations, calls >>
updateVars == << updates, updateHistory >>
utilVars == << input, output >>

(***************************************************************************)
(* Bounds of the model.                                                    *)
(***************************************************************************)
MaxTime == 1          \* the clock runs 0 .. MaxTime
MaxActivations == 2   \* rows of table LicenseActivation
MaxCalls == 2         \* calls made in SpecConc
MaxSegments == 4      \* dash-separated parts after the prefix of a key input
MaxHistory == 2       \* rows of table UpdateHistory
MaxDownloads == 2     \* downloads of one release

(***************************************************************************)
(* Values.                                                                 *)
(***************************************************************************)
NoTime == -1                  \* a null timestamp column
Undefined == "undefined"      \* an absent string property

Letters ==
    { "A", "B", "C", "D", "E", "F", "G", "H", "I", "J", "K", "L", "M",
      "N", "O", "P", "Q", "R", "S", "T", "U", "V", "W", "X", "Y", "Z" }

Digits == { "0", "1", "2", "3", "4", "5", "6", "7", "8", "9" }

\* MACMAN-ABCD0-12340-XY9Z0
KeyA ==
    << "M", "A", "C", "M", "A", "N", "-", "A", "B", "C", "D", "0", "-",
       "1", "2", "3", "4", "0", "-", "X", "Y", "9", "Z", "0" >>

\* MACMAN-QRST0-67890-AB1C0
KeyB ==
    << "M", "A", "C", "M", "A", "N", "-", "Q", "R", "S", "T", "0", "-",
       "6", "7", "8", "9", "0", "-", "A", "B", "1", "C", "0" >>

\* MACMAN-ABCD-12340-XY9Z0 : a segment of four characters
KeyBad ==
    << "M", "A", "C", "M", "A", "N", "-", "A", "B", "C", "D", "-",
       "1", "2", "3", "4", "0", "-", "X", "Y", "9", "Z", "0" >>

GeneratedKeys == { KeyA, KeyB }        \* what generateLicenseKey may return
KeyInputs == { KeyA, KeyB, KeyBad }    \* what a client may send
AdminKeyInputs == { KeyA, KeyB }       \* the keys the admin names in a path
Machines == { "m1", "m2", "m3" }

\* The validation requests clients send.  The optional, informational fields
\* are those of one client profile, and machine m1 also sends a second one
\* against KeyB (a renamed device after an OS and app upgrade).
Dto(k, m, deviceName, osVersion, appVersion) ==
    [ licenseKey |-> k, machineId |-> m, deviceName |-> deviceName,
      osVersion |-> osVersion, appVersion |-> appVersion ]

ValidateLicenseDto ==
    { Dto(k, m, "mac-1", "14.0", "1.0.0") : k \in KeyInputs, m \in Machines }
        \cup { Dto(KeyB, "m1", "mac-2", "15.0", "1.0.8") }

\* The create requests the admin sends: << plan, max_devices >>, max_devices
\* 0 standing for "not given".
CreateLicenseDto == { << "2 Devices", 0 >> }

(***************************************************************************)
(* utils/licenseKey.ts                                                     *)
(***************************************************************************)
KeyPrefix == << "M", "A", "C", "M", "A", "N" >>

\* [A-Z0-9]
SegmentChars == Letters \cup Digits

\* five characters that are not dashes
IsSegmentAtNoDash(key, from) ==
    \A i \in from .. from + 4 : key[i] # "-"

\* [A-Z0-9]{5} at key[from .. from+4]
IsSegmentAt(key, from) ==
    \A i \in from .. from + 4 : key[i] \in SegmentChars

\* /^MACMAN-[A-Z0-9]{5}-[A-Z0-9]{5}-[A-Z0-9]{5}$/
isValidLicenseKeyFormat(key) ==
    /\ Len(key) = 24
    /\ SubSeq(key, 1, 6) = KeyPrefix
    /\ key[7] = "-"
    /\ IsSegmentAt(key, 8)
    /\ key[13] = "-"
    /\ IsSegmentAt(key, 14)
    /\ key[19] = "-"
    /\ IsSegmentAt(key, 20)

\* generateLicenseKey: the characters of base64, in the order of their codes
UpperCase ==
    << "A", "B", "C", "D", "E", "F", "G", "H", "I", "J", "K", "L", "M",
       "N", "O", "P", "Q", "R", "S", "T", "U", "V", "W", "X", "Y", "Z" >>

LowerCase ==
    << "a", "b", "c", "d", "e", "f", "g", "h", "i", "j", "k", "l", "m",
       "n", "o", "p", "q", "r", "s", "t", "u", "v", "w", "x", "y", "z" >>

DigitChars == << "0", "1", "2", "3", "4", "5", "6", "7", "8", "9" >>

Base64Alphabet == UpperCase \o LowerCase \o DigitChars \o << "+", "/" >>

Range(seq) == { seq[i] : i \in 1 .. Len(seq) }

\* crypto.randomBytes(3).toString('base64'): 24 bits as four 6-bit codes
toBase64(bytes) ==
    LET n == bytes[1] * 65536 + bytes[2] * 256 + bytes[3]
    IN  << Base64Alphabet[((n \div 262144) % 64) + 1],
           Base64Alphabet[((n \div 4096) % 64) + 1],
           Base64Alphabet[((n \div 64) % 64) + 1],
           Base64Alphabet[(n % 64) + 1] >>

\* .replace(/[^A-Z0-9]/gi, '')
IsAlphaNumeric(c) == c \in Range(UpperCase) \cup Range(LowerCase) \cup Range(DigitChars)

replaceNonAlphaNumeric(str) == SelectSeq(str, IsAlphaNumeric)

\* .toUpperCase()
toUpperCase(str) ==
    [ i \in 1 .. Len(str) |->
        IF str[i] \in Range(LowerCase)
        THEN UpperCase[CHOOSE j \in 1 .. 26 : LowerCase[j] = str[i]]
        ELSE str[i] ]

\* .substring(0, end)
substring(str, end) == SubSeq(str, 1, IF Len(str) < end THEN Len(str) ELSE end)

\* a padEnd that pads nothing
padEndNone(str, length, fill) == str

\* .padEnd(length, fill)
padEnd(str, length, fill) ==
    IF Len(str) >= length
    THEN str
    ELSE str \o [ i \in 1 .. length - Len(str) |-> fill ]

\* one segment, from its three random bytes
Segment(bytes) ==
    padEnd(substring(toUpperCase(replaceNonAlphaNumeric(toBase64(bytes))), 5),
           5, "0")

\* generateLicenseKey, random being the bytes drawn for the three segments
generateLicenseKey(random) ==
    KeyPrefix \o << "-" >> \o Segment(random[1]) \o << "-" >>
        \o Segment(random[2]) \o << "-" >> \o Segment(random[3])

\* str.split(sep), sep a single character
RECURSIVE split(_, _)
split(str, sep) ==
    IF sep \notin Range(str)
    THEN << str >>
    ELSE LET i == CHOOSE i \in 1 .. Len(str) :
                     str[i] = sep /\ \A j \in 1 .. i - 1 : str[j] # sep
         IN  << SubSeq(str, 1, i - 1) >>
                 \o split(SubSeq(str, i + 1, Len(str)), sep)

\* A JavaScript number is a sequence of length one; NaN is the empty one.
NaN == << >>

\* the value of a string of decimal digits
RECURSIVE DecimalValue(_)
DecimalValue(str) ==
    IF str = << >>
    THEN 0
    ELSE DecimalValue(SubSeq(str, 1, Len(str) - 1)) * 10
           + ( CHOOSE d \in 0 .. 9 : DigitChars[d + 1] = str[Len(str)] )

\* Number(str), for strings of digits, dots and letters: "" is 0, a string
\* of digits its value, anything else NaN
Number(str) ==
    IF \A i \in 1 .. Len(str) : str[i] \in Range(DigitChars)
    THEN << DecimalValue(str) >>
    ELSE NaN

\* parts[i] || 0 : undefined, NaN and 0 all give 0
PartOrZero(parts, i) ==
    IF i > Len(parts) \/ Number(parts[i]) = NaN
    THEN 0
    ELSE Number(parts[i])[1]

\* a build number that forgets the weight of the minor component
versionToBuildNumberFlat(version) ==
    LET parts == split(version, ".")
    IN  IF Number(parts[1]) = NaN
        THEN NaN
        ELSE << Number(parts[1])[1] * 10000 + PartOrZero(parts, 2)
                  + PartOrZero(parts, 3) >>

\* versionToBuildNumber: parts[0] * 10000 + (parts[1] || 0) * 100
\*                       + (parts[2] || 0)
versionToBuildNumber(version) ==
    LET parts == split(version, ".")
    IN  IF Number(parts[1]) = NaN
        THEN NaN
        ELSE << Number(parts[1])[1] * 10000 + PartOrZero(parts, 2) * 100
                  + PartOrZero(parts, 3) >>

(***************************************************************************)
(* Storage: rows and queries (Prisma calls of LicenseService).             *)
(***************************************************************************)
\* prisma.license.create: the row of a new license.  deviceCount, expiresAt
\* and activatedAt are not given by createLicense and take the column
\* defaults.
DefaultDeviceCount == 0

NewLicenseRow(licenseKey, plan, maxDevices) ==
    [ licenseKey |-> licenseKey, plan |-> plan, maxDevices |-> maxDevices,
      isActive |-> TRUE, expiresAt |-> NoTime,
      deviceCount |-> DefaultDeviceCount, activatedAt |-> NoTime ]

\* prisma.licenseActivation.create of validateLicense
NewActivationRow(licenseId, data) ==
    [ licenseId |-> licenseId, machineId |-> data.machineId,
      deviceName |-> data.deviceName, osVersion |-> data.osVersion,
      appVersion |-> data.appVersion, isActive |-> TRUE,
      lastSeenAt |-> NoTime, deactivatedAt |-> NoTime ]

\* the id of the license with this key, 0 when there is none
LicenseIdOf(lics, key) ==
    IF \E i \in 1 .. Len(lics) : lics[i].licenseKey = key
    THEN CHOOSE i \in 1 .. Len(lics) : lics[i].licenseKey = key
    ELSE 0

\* what a query includes of an activation row
ActivationView(acts, i) ==
    [ id |-> i, machineId |-> acts[i].machineId, isActive |-> acts[i].isActive ]

NoLicense ==
    [ id |-> 0, licenseKey |-> << >>, plan |-> Undefined, maxDevices |-> 0,
      isActive |-> FALSE, expiresAt |-> NoTime, deviceCount |-> 0,
      activations |-> { } ]

LicenseView(lics, id, included) ==
    [ id |-> id, licenseKey |-> lics[id].licenseKey, plan |-> lics[id].plan,
      maxDevices |-> lics[id].maxDevices, isActive |-> lics[id].isActive,
      expiresAt |-> lics[id].expiresAt, deviceCount |-> lics[id].deviceCount,
      activations |-> included ]

\* a lookup that includes every activation of the license and reads each
\* as an active one
FindLicenseWithActivationsAsActive(lics, acts, key) ==
    LET id == LicenseIdOf(lics, key)
    IN  IF id = 0
        THEN NoLicense
        ELSE LicenseView(lics, id,
                 { [ ActivationView(acts, i) EXCEPT !.isActive = TRUE ] :
                     i \in { j \in 1 .. Len(acts) : acts[j].licenseId = id } })

\* findUnique({ where: { licenseKey }, include: { activations: { where: { isActive: true } } } })
FindLicenseWithActiveActivations(lics, acts, key) ==
    LET id == LicenseIdOf(lics, key)
    IN  IF id = 0
        THEN NoLicense
        ELSE LicenseView(lics, id,
                 { ActivationView(acts, i) :
                     i \in { j \in 1 .. Len(acts) :
                               acts[j].licenseId = id /\ acts[j].isActive } })

\* findUnique({ where: { licenseKey }, include: { activations: true } })
FindLicenseWithActivations(lics, acts, key) ==
    LET id == LicenseIdOf(lics, key)
    IN  IF id = 0
        THEN NoLicense
        ELSE LicenseView(lics, id,
                 { ActivationView(acts, i) :
                     i \in { j \in 1 .. Len(acts) : acts[j].licenseId = id } })

\* an update that also overwrites the device name
TouchActivationAllFields(acts, id, data, t) ==
    [ acts EXCEPT ![id].lastSeenAt = t,
                  ![id].deviceName = data.deviceName,
                  ![id].osVersion = data.osVersion,
                  ![id].appVersion = data.appVersion ]

\* licenseActivation.update({ data: { lastSeenAt, osVersion, appVersion } })
TouchActivation(acts, id, data, t) ==
    [ acts EXCEPT ![id].lastSeenAt = t,
                  ![id].osVersion = data.osVersion,
                  ![id].appVersion = data.appVersion ]

\* license.update({ data: { activatedAt, deviceCount } })
SetActivatedCount(lics, id, count, t) ==
    [ lics EXCEPT ![id].activatedAt = t, ![id].deviceCount = count ]

\* a deactivation that leaves deactivatedAt null
MarkDeactivatedNoStamp(acts, id, t) ==
    [ acts EXCEPT ![id].isActive = FALSE ]

\* a deactivation that deletes the row
MarkDeactivatedByDelete(acts, id, t) ==
    SubSeq(acts, 1, id - 1) \o SubSeq(acts, id + 1, Len(acts))

\* licenseActivation.update({ data: { isActive: false, deactivatedAt } })
MarkDeactivated(acts, id, t) ==
    [ acts EXCEPT ![id].isActive = FALSE, ![id].deactivatedAt = t ]

\* an update that writes the count into maxDevices
SetMaxDevices(lics, id, count) ==
    [ lics EXCEPT ![id].maxDevices = count ]

\* license.update({ data: { deviceCount } })
SetDeviceCount(lics, id, count) ==
    [ lics EXCEPT ![id].deviceCount = count ]

\* license.update({ where: { licenseKey }, data: { isActive: false } })
SetLicenseInactive(lics, id) ==
    [ lics EXCEPT ![id].isActive = FALSE ]

(***************************************************************************)
(* LicenseService: the decisions of validateLicense and deactivateDevice   *)
(* on the license they read.                                               *)
(***************************************************************************)
\* license.expiresAt && license.expiresAt < new Date()
LicenseExpired(license, t) ==
    license.expiresAt # NoTime /\ license.expiresAt < t

\* a search that forgets the isActive test
MatchingActivationsAnyState(license, machineId) ==
    { a \in license.activations : a.machineId = machineId }

\* license.activations.find(a => a.machineId === machineId && a.isActive)
MatchingActivations(license, machineId) ==
    { a \in license.activations : a.machineId = machineId /\ a.isActive }

\* license.activations.filter(a => a.isActive).length
ActiveDeviceCount(license) ==
    Cardinality({ a \in license.activations : a.isActive })

\* a quota check that admits one machine too many
MaxDevicesReachedOffByOne(license) ==
    ActiveDeviceCount(license) > license.maxDevices

\* activeDeviceCount >= license.maxDevices
MaxDevicesReached(license) ==
    ActiveDeviceCount(license) >= license.maxDevices

\* the checks with the already-bound machine looked up before the expiry
ValidateBranchBoundFirst(data, license, t) ==
    IF ~isValidLicenseKeyFormat(data.licenseKey) THEN "format"
    ELSE IF license.id = 0 THEN "not_found"
    ELSE IF ~license.isActive THEN "inactive"
    ELSE IF MatchingActivations(license, data.machineId) # { } THEN "existing"
    ELSE IF LicenseExpired(license, t) THEN "expired"
    ELSE IF MaxDevicesReached(license) THEN "max_devices"
    ELSE "new"

\* the checks with the already-bound machine looked up before isActive
ValidateBranchBoundBeforeInactive(data, license, t) ==
    IF ~isValidLicenseKeyFormat(data.licenseKey) THEN "format"
    ELSE IF license.id = 0 THEN "not_found"
    ELSE IF MatchingActivations(license, data.machineId) # { } THEN "existing"
    ELSE IF ~license.isActive THEN "inactive"
    ELSE IF LicenseExpired(license, t) THEN "expired"
    ELSE IF MaxDevicesReached(license) THEN "max_devices"
    ELSE "new"

\* the checks with the quota looked at before the already-bound machine
ValidateBranchQuotaFirst(data, license, t) ==
    IF ~isValidLicenseKeyFormat(data.licenseKey) THEN "format"
    ELSE IF license.id = 0 THEN "not_found"
    ELSE IF ~license.isActive THEN "inactive"
    ELSE IF LicenseExpired(license, t) THEN "expired"
    ELSE IF MaxDevicesReached(license) THEN "max_devices"
    ELSE IF MatchingActivations(license, data.machineId) # { } THEN "existing"
    ELSE "new"

\* The branch validateLicense takes, its checks in the order of the code.
ValidateBranch(data, license, t) ==
    IF ~isValidLicenseKeyFormat(data.licenseKey) THEN "format"
    ELSE IF license.id = 0 THEN "not_found"
    ELSE IF ~license.isActive THEN "inactive"
    ELSE IF LicenseExpired(license, t) THEN "expired"
    ELSE IF MatchingActivations(license, data.machineId) # { } THEN "existing"
    ELSE IF MaxDevicesReached(license) THEN "max_devices"
    ELSE "new"

\* LicenseResponse values
LicenseData(license, deviceCount) ==
    << [ licenseKey |-> license.licenseKey, plan |-> license.plan,
         maxDevices |-> license.maxDevices, deviceCount |-> deviceCount,
         isActive |-> license.isActive ] >>

Invalid(message, errorType, purchaseUrl) ==
    [ valid |-> FALSE, message |-> message, errorType |-> errorType,
      data |-> << >>, purchaseUrl |-> purchaseUrl, error |-> Undefined ]

Valid(message, license, deviceCount) ==
    [ valid |-> TRUE, message |-> message, errorType |-> Undefined,
      data |-> LicenseData(license, deviceCount), purchaseUrl |-> Undefined,
      error |-> Undefined ]

\* the result of an admin operation: returned, or the error thrown
Returned ==
    [ valid |-> TRUE, message |-> Undefined, errorType |-> Undefined,
      data |-> << >>, purchaseUrl |-> Undefined, error |-> Undefined ]

Thrown(error, message) ==
    [ valid |-> FALSE, message |-> message, errorType |-> Undefined,
      data |-> << >>, purchaseUrl |-> Undefined, error |-> error ]

\* a validateLicense that refuses a machine that is not bound as a mismatch
ValidateResultMismatch(branch, license) ==
    IF branch \in { "existing", "new" }
    THEN Valid("License validated successfully", license,
               Cardinality(license.activations))
    ELSE Invalid("License is bound to another machine", "machine_mismatch",
                 Undefined)

\* what validateLicense returns on the branch it took
ValidateResult(branch, license) ==
    CASE branch = "format" ->
           Invalid("Invalid license key format", "invalid_key", Undefined)
      [] branch = "not_found" ->
           Invalid("License key not found", "invalid_key", Undefined)
      [] branch = "inactive" ->
           Invalid("This license has been deactivated", "inactive", Undefined)
      [] branch = "expired" ->
           Invalid("This license has expired", "expired", Undefined)
      [] branch = "existing" ->
           Valid("License validated successfully", license,
                 Cardinality(license.activations))
      [] branch = "max_devices" ->
           Invalid("Maximum number of devices reached for this license",
                   "max_devices_reached", "https://macman.dev/#pricing")
      [] branch = "new" ->
           Valid("License activated successfully", license,
                 ActiveDeviceCount(license) + 1)

\* getMaxDevicesForPlan: planMap[plan] || 1
getMaxDevicesForPlan(plan) ==
    CASE plan = "Individual" -> 1
      [] plan = "2 Devices" -> 2
      [] plan = "5 Devices" -> 5
      [] plan = "Enterprise" -> 999
      [] OTHER -> 1

\* a quota that ignores the override
MaxDevicesForPlanOnly(plan, maxDevices) == getMaxDevicesForPlan(plan)

\* data.maxDevices || this.getMaxDevicesForPlan(data.plan)
MaxDevicesFor(plan, maxDevices) ==
    IF maxDevices # 0 THEN maxDevices ELSE getMaxDevicesForPlan(plan)

(***************************************************************************)
(* The boundary: errorHandler turns an error thrown by a handler into the  *)
(* HTTP response (src/src/middleware/errorHandler.ts).                     *)
(***************************************************************************)
\* the classes derived from AppError, and the statusCode each one carries
AppErrors ==
    { "BadRequestError", "UnauthorizedError", "NotFoundError", "ConflictError" }

statusCode(error) ==
    CASE error = "BadRequestError" -> 400
      [] error = "UnauthorizedError" -> 401
      [] error = "NotFoundError" -> 404
      [] error = "ConflictError" -> 409

\* errorHandler(err): status and `error` text of the response
errorHandler(err) ==
    IF err.error \in AppErrors
    THEN [ status |-> statusCode(err.error), error |-> err.message ]
    ELSE IF err.error = "PrismaClientKnownRequestError"
    THEN [ status |-> 400, error |-> "Database operation failed" ]
    ELSE IF err.error = "ValidationError"
    THEN [ status |-> 400, error |-> "Validation failed" ]
    ELSE [ status |-> 500, error |-> "Internal server error" ]

(***************************************************************************)
(* State after start-up: the clock at 0 and one provisioned license in     *)
(* storage, a subscription that ends at time 0 (expiresAt is set outside   *)
(* LicenseService); no activation, no call.                                *)
(***************************************************************************)
SeedLicense ==
    [ NewLicenseRow(KeyA, "Individual", getMaxDevicesForPlan("Individual"))
        EXCEPT !.expiresAt = 0 ]

NoData ==
    [ licenseKey |-> << >>, machineId |-> Undefined, deviceName |-> Undefined,
      osVersion |-> Undefined, appVersion |-> Undefined ]

IdleCall ==
    [ op |-> "idle", pc |-> "idle", data |-> NoData, license |-> NoLicense,
      target |-> 0, branch |-> Undefined, result |-> Returned ]

Response(op, result) == [ op |-> op, result |-> result ]

Init ==
    /\ now = 0
    /\ licenses = << SeedLicense >>
    /\ activations = << >>
    /\ resp = Response("none", Returned)
    /\ calls = << >>
    /\ updates = << >> /\ updateHistory = << >>
    /\ input = << >> /\ output = << >>

(***************************************************************************)
(* The clock.                                                              *)
(***************************************************************************)
Tick ==
    /\ now < MaxTime
    /\ now' = now + 1
    /\ UNCHANGED << licenses, activations, resp, calls, updateVars, utilVars >>

(***************************************************************************)
(* LicenseService, one call at a time.                                     *)
(***************************************************************************)
\* createLicense: the generated key is storage-unique or create throws
CreateLicense(licenseKey, plan, maxDevices) ==
    /\ IF LicenseIdOf(licenses, licenseKey) # 0
       THEN /\ resp' = Response("createLicense", Thrown("PrismaClientKnownRequestError",
                                  "Unique constraint failed"))
            /\ UNCHANGED licenses
       ELSE /\ licenses' = Append(licenses,
                   NewLicenseRow(licenseKey, plan, MaxDevicesFor(plan, maxDevices)))
            /\ resp' = Response("createLicense", Returned)
    /\ UNCHANGED << now, activations, calls, updateVars, utilVars >>

\* validateLicense
ValidateLicense(data) ==
    LET license == FindLicenseWithActiveActivations(licenses, activations,
                                                    data.licenseKey)
        branch == ValidateBranch(data, license, now)
    IN  /\ branch = "new" => Len(activations) < MaxActivations
        /\ CASE branch = "existing" ->
                  /\ \E a \in MatchingActivations(license, data.machineId) :
                        activations' = TouchActivation(activations, a.id, data, now)
                  /\ UNCHANGED licenses
             [] branch = "new" ->
                  /\ activations' = Append(activations,
                                           NewActivationRow(license.id, data))
                  /\ licenses' = SetActivatedCount(licenses, license.id,
                                     ActiveDeviceCount(license) + 1, now)
             [] OTHER -> UNCHANGED << licenses, activations >>
        /\ resp' = Response("validateLicense", ValidateResult(branch, license))
        /\ UNCHANGED << now, calls, updateVars, utilVars >>

\* deactivateLicense: update throws when no row has the key
DeactivateLicense(licenseKey) ==
    LET id == LicenseIdOf(licenses, licenseKey)
    IN  /\ IF id = 0
           THEN /\ resp' = Response("deactivateLicense", Thrown("PrismaClientKnownRequestError",
                                      "Record to update not found"))
                /\ UNCHANGED licenses
           ELSE /\ licenses' = SetLicenseInactive(licenses, id)
                /\ resp' = Response("deactivateLicense", Returned)
        /\ UNCHANGED << now, activations, calls, updateVars, utilVars >>

\* the branch deactivateDevice takes
DeactivateBranch(license, machineId) ==
    IF license.id = 0 THEN "no_license"
    ELSE IF MatchingActivations(license, machineId) = { } THEN "no_activation"
    ELSE "deactivate"

DeactivateResult(branch) ==
    CASE branch = "no_license" -> Thrown("NotFoundError", "License not found")
      [] branch = "no_activation" ->
           Thrown("NotFoundError", "Device activation not found")
      [] branch = "deactivate" -> Returned

\* a deactivation that forgets the count
DecrementedCountKept(license) == license.deviceCount

\* a decrement that never goes below one
DecrementedCountFloored(license) ==
    IF license.deviceCount > 1 THEN license.deviceCount - 1 ELSE 1

\* the count deactivateDevice writes: license.deviceCount - 1
DecrementedCount(license) == license.deviceCount - 1

\* deactivateDevice
DeactivateDevice(licenseKey, machineId) ==
    LET license == FindLicenseWithActivations(licenses, activations, licenseKey)
        branch == DeactivateBranch(license, machineId)
    IN  /\ IF branch = "deactivate"
           THEN /\ \E a \in MatchingActivations(license, machineId) :
                      activations' = MarkDeactivated(activations, a.id, now)
                /\ licenses' = SetDeviceCount(licenses, license.id,
                                              DecrementedCount(license))
           ELSE UNCHANGED << licenses, activations >>
        /\ resp' = Response("deactivateDevice", DeactivateResult(branch))
        /\ UNCHANGED << now, calls, updateVars, utilVars >>

Next ==
    \/ Tick
    \/ \E k \in GeneratedKeys, c \in CreateLicenseDto :
          CreateLicense(k, c[1], c[2])
    \/ \E d \in ValidateLicenseDto : ValidateLicense(d)
    \/ \E k \in AdminKeyInputs : DeactivateLicense(k)
    \/ \E k \in AdminKeyInputs, m \in Machines : DeactivateDevice(k, m)

Spec == Init /\ [][Next]_vars

(***************************************************************************)
(* LicenseService under concurrent requests.  Node runs the code between   *)
(* two awaits without interruption, so a call is a sequence of storage     *)
(* round trips, each taken together with the code that follows it up to    *)
(* the next await:                                                         *)
(*   validateLicense   find -> (return | touch | insert -> count)          *)
(*   deactivateDevice  find -> (throw | mark -> count)                     *)
(* Each of the MaxCalls requests is made once; calls[c] keeps the local    *)
(* variables of request c (the license it read, the activation it found)   *)
(* and, once done, what it returned.  The clock is held at 0.              *)
(***************************************************************************)
\* Storage when the requests arrive: license KeyB ("2 Devices") next to the
\* provisioned one, with the machines of `bound` activated on it one after
\* the other.
RECURSIVE ActivatedRows(_)
ActivatedRows(bound) ==
    IF bound = << >>
    THEN << >>
    ELSE Append(ActivatedRows(SubSeq(bound, 1, Len(bound) - 1)),
                NewActivationRow(2, Dto(KeyB, bound[Len(bound)],
                                        "mac-1", "14.0", "1.0.0")))

StorageWith(bound) ==
    [ licenses |->
        IF bound = << >>
        THEN << SeedLicense, NewLicenseRow(KeyB, "2 Devices", 2) >>
        ELSE SetActivatedCount(
                 << SeedLicense, NewLicenseRow(KeyB, "2 Devices", 2) >>,
                 2, Len(bound), 0),
      activations |-> ActivatedRows(bound) ]

InitConc ==
    /\ now = 0
    /\ \E bound \in { << >>, << "m1" >>, << "m1", "m2" >> } :
          /\ licenses = StorageWith(bound).licenses
          /\ activations = StorageWith(bound).activations
    /\ resp = Response("none", Returned)
    /\ calls = [ c \in 1 .. MaxCalls |-> IdleCall ]
    /\ updates = << >> /\ updateHistory = << >>
    /\ input = << >> /\ output = << >>

Done(c, branch, result) ==
    calls' = [ calls EXCEPT ![c].pc = "done", ![c].branch = branch,
                            ![c].result = result ]

\* a validateLicense that looks the key up before it checks the format
BeginValidateLookupFirst(c, data) ==
    /\ calls[c].pc = "idle"
    /\ calls' = [ calls EXCEPT ![c] =
                    [ IdleCall EXCEPT !.op = "validateLicense",
                        !.pc = "find", !.data = data ] ]
    /\ UNCHANGED << now, licenses, activations, resp, updateVars, utilVars >>

\* validateLicense is called: the format check, then the first await
BeginValidate(c, data) ==
    /\ calls[c].pc = "idle"
    /\ IF ~isValidLicenseKeyFormat(data.licenseKey)
       THEN calls' = [ calls EXCEPT ![c] =
                         [ IdleCall EXCEPT !.op = "validateLicense",
                             !.pc = "done", !.data = data, !.branch = "format",
                             !.result = ValidateResult("format", NoLicense) ] ]
       ELSE calls' = [ calls EXCEPT ![c] =
                         [ IdleCall EXCEPT !.op = "validateLicense",
                             !.pc = "find", !.data = data ] ]
    /\ UNCHANGED << now, licenses, activations, resp, updateVars, utilVars >>

\* license.findUnique answers; the checks up to the next await or return
ValidateFind(c) ==
    /\ calls[c].op = "validateLicense" /\ calls[c].pc = "find"
    /\ LET data == calls[c].data
           license == FindLicenseWithActiveActivations(licenses, activations,
                                                       data.licenseKey)
           branch == ValidateBranch(data, license, now)
       IN  CASE branch = "existing" ->
                  \E a \in MatchingActivations(license, data.machineId) :
                     calls' = [ calls EXCEPT ![c].pc = "touch",
                                  ![c].license = license, ![c].target = a.id,
                                  ![c].branch = branch ]
             [] branch = "new" ->
                  calls' = [ calls EXCEPT ![c].pc = "insert",
                               ![c].license = license, ![c].branch = branch ]
             [] OTHER -> Done(c, branch, ValidateResult(branch, license))
    /\ UNCHANGED << now, licenses, activations, resp, updateVars, utilVars >>

\* licenseActivation.update answers; return
ValidateTouch(c) ==
    /\ calls[c].op = "validateLicense" /\ calls[c].pc = "touch"
    /\ activations' = TouchActivation(activations, calls[c].target,
                                      calls[c].data, now)
    /\ Done(c, "existing", ValidateResult("existing", calls[c].license))
    /\ UNCHANGED << now, licenses, resp, updateVars, utilVars >>

\* licenseActivation.create answers
ValidateInsert(c) ==
    /\ calls[c].op = "validateLicense" /\ calls[c].pc = "insert"
    /\ activations' = Append(activations,
                             NewActivationRow(calls[c].license.id, calls[c].data))
    /\ calls' = [ calls EXCEPT ![c].pc = "count" ]
    /\ UNCHANGED << now, licenses, resp, updateVars, utilVars >>

\* license.update answers; return
ValidateCount(c) ==
    /\ calls[c].op = "validateLicense" /\ calls[c].pc = "count"
    /\ licenses' = SetActivatedCount(licenses, calls[c].license.id,
                       ActiveDeviceCount(calls[c].license) + 1, now)
    /\ Done(c, "new", ValidateResult("new", calls[c].license))
    /\ UNCHANGED << now, activations, resp, updateVars, utilVars >>

\* deactivateDevice is called: the first await
BeginDeactivate(c, licenseKey, machineId) ==
    /\ calls[c].pc = "idle"
    /\ calls' = [ calls EXCEPT ![c] =
                    [ IdleCall EXCEPT !.op = "deactivateDevice", !.pc = "find",
                        !.data = Dto(licenseKey, machineId, Undefined,
                                     Undefined, Undefined) ] ]
    /\ UNCHANGED << now, licenses, activations, resp, updateVars, utilVars >>

\* license.findUnique answers; the checks up to the next await or throw
DeactivateFind(c) ==
    /\ calls[c].op = "deactivateDevice" /\ calls[c].pc = "find"
    /\ LET data == calls[c].data
           license == FindLicenseWithActivations(licenses, activations,
                                                 data.licenseKey)
           branch == DeactivateBranch(license, data.machineId)
       IN  IF branch = "deactivate"
           THEN \E a \in MatchingActivations(license, data.machineId) :
                   calls' = [ calls EXCEPT ![c].pc = "mark",
                                ![c].license = license, ![c].target = a.id,
                                ![c].branch = branch ]
           ELSE Done(c, branch, DeactivateResult(branch))
    /\ UNCHANGED << now, licenses, activations, resp, updateVars, utilVars >>

\* licenseActivation.update answers
DeactivateMark(c) ==
    /\ calls[c].op = "deactivateDevice" /\ calls[c].pc = "mark"
    /\ activations' = MarkDeactivated(activations, calls[c].target, now)
    /\ calls' = [ calls EXCEPT ![c].pc = "count" ]
    /\ UNCHANGED << now, licenses, resp, updateVars, utilVars >>

\* license.update answers; return
DeactivateCount(c) ==
    /\ calls[c].op = "deactivateDevice" /\ calls[c].pc = "count"
    /\ licenses' = SetDeviceCount(licenses, calls[c].license.id,
                                  DecrementedCount(calls[c].license))
    /\ Done(c, "deactivate", DeactivateResult("deactivate"))
    /\ UNCHANGED << now, activations, resp, updateVars, utilVars >>

NextConc ==
    \E c \in 1 .. MaxCalls :
       \/ \E d \in ValidateLicenseDto : BeginValidate(c, d)
       \/ ValidateFind(c)
       \/ ValidateTouch(c)
       \/ ValidateInsert(c)
       \/ ValidateCount(c)
       \/ \E k \in AdminKeyInputs, m \in Machines : BeginDeactivate(c, k, m)
       \/ DeactivateFind(c)
       \/ DeactivateMark(c)
       \/ DeactivateCount(c)

SpecConc == InitConc /\ [][NextConc]_vars

(***************************************************************************)
(* The storage round trips of validateLicense on licenses that are missing,*)
(* deactivated or expired: the steps of SpecConc, from storage that holds  *)
(* the provisioned license only, with the clock running and with           *)
(* createLicense and deactivateLicense, each a single storage call, in     *)
(* between.                                                                *)
(***************************************************************************)
InitLookup ==
    /\ now = 0
    /\ licenses = << SeedLicense >>
    /\ activations = << >>
    /\ resp = Response("none", Returned)
    /\ calls = [ c \in 1 .. MaxCalls |-> IdleCall ]
    /\ updates = << >> /\ updateHistory = << >>
    /\ input = << >> /\ output = << >>

\* the validations sent: the three keys from machines m1 and m2
LookupValidations ==
    { d \in ValidateLicenseDto :
        d.machineId \in { "m1", "m2" } /\ d.deviceName = "mac-1" }

NextLookup ==
    \/ Tick
    \/ \E c \in CreateLicenseDto :
          CreateLicense(KeyB, c[1], c[2])
    \/ \E k \in AdminKeyInputs : DeactivateLicense(k)
    \/ \E c \in 1 .. MaxCalls :
          \/ \E d \in LookupValidations : BeginValidate(c, d)
          \/ ValidateFind(c)
          \/ ValidateTouch(c)
          \/ ValidateInsert(c)
          \/ ValidateCount(c)

SpecLookup == InitLookup /\ [][NextLookup]_vars

(***************************************************************************)
(* POST /admin/licenses: validateBody(createLicenseSchema), then the       *)
(* controller, then LicenseService.createLicense.  A body is the pair of   *)
(* its fields plan and max_devices; a field that may be absent is a        *)
(* sequence of length at most one.  The admin gate in front of the route  *)
(* is passed.                                                              *)
(***************************************************************************)
PlanTiers == { "Individual", "2 Devices", "5 Devices", "Enterprise" }

CreateBody(plan, max_devices) == [ plan |-> plan, max_devices |-> max_devices ]

\* the bodies sent: every tier and two strings that are no tier, with the
\* override absent, zero, and two positive values
CreateBodies ==
    { CreateBody(p, m) : p \in PlanTiers \cup { "Pro", "individual" },
                         m \in { << >>, << 0 >>, << 1 >>, << 3 >> } }

\* a schema that takes any string for a plan
createLicenseSchemaAnyPlan(body) ==
    IF body.max_devices # << >> /\ body.max_devices[1] <= 0
    THEN << "max_devices" >>
    ELSE << >>

\* createLicenseSchema.parse(body): the paths of the fields it refuses
createLicenseSchema(body) ==
    ( IF body.plan \in PlanTiers THEN << >> ELSE << "plan" >> )
    \o ( IF body.max_devices # << >> /\ body.max_devices[1] <= 0
         THEN << "max_devices" >>
         ELSE << >> )

\* validateBody: the BadRequestError passed to next() when the schema refuses
ValidationFailed(paths) ==
    Thrown("BadRequestError",
           CASE paths = << "plan" >> -> "Validation failed: plan"
             [] paths = << "max_devices" >> -> "Validation failed: max_devices"
             [] paths = << "plan", "max_devices" >> ->
                  "Validation failed: plan, max_devices")

\* maxDevices: max_devices -- an absent field reads as undefined, which
\* `||` treats as it treats 0
FieldOrUndefined(field) == IF field = << >> THEN 0 ELSE field[1]

PostAdminLicenses(licenseKey, body) ==
    IF createLicenseSchema(body) # << >>
    THEN /\ resp' = Response("createLicense",
                              ValidationFailed(createLicenseSchema(body)))
         /\ UNCHANGED << now, licenseVars, updateVars, utilVars >>
    ELSE CreateLicense(licenseKey, body.plan, FieldOrUndefined(body.max_devices))

\* storage is empty when the service starts
InitCreate ==
    /\ now = 0
    /\ licenses = << >> /\ activations = << >> /\ calls = << >>
    /\ resp = Response("none", Returned)
    /\ updates = << >> /\ updateHistory = << >>
    /\ input = << >> /\ output = << >>

NextCreate ==
    \E k \in GeneratedKeys, body \in CreateBodies : PostAdminLicenses(k, body)

SpecCreate == InitCreate /\ [][NextCreate]_vars

(***************************************************************************)
(* UpdateService (src/src/services/update.service.ts), one call at a time. *)
(* Tables `updates` and `updateHistory`; a row's id is its index.  Version *)
(* strings are sequences of characters, as versionToBuildNumber reads them.*)
(***************************************************************************)
V109 == << "1", ".", "0", ".", "9" >>
V1010 == << "1", ".", "0", ".", "1", "0" >>
V120 == << "1", ".", "2", ".", "0" >>

CreateUpdateData(version, buildNumber, releaseType, fileSize, forceUpdate) ==
    [ version |-> version, buildNumber |-> buildNumber,
      releaseType |-> releaseType, filename |-> "Macman.zip",
      fileSize |-> fileSize, checksum |-> "sha256", releaseNotes |-> "",
      forceUpdate |-> forceUpdate ]

\* The releases the admin publishes (each passes createUpdateSchema): 1.0.9,
\* 1.0.10 and 1.2.0 with the build numbers of their versions, and 1.0.9
\* once more with another build number and other metadata.
CreateUpdateDto ==
    { CreateUpdateData(V109, 10009, "normal", 100, FALSE),
      CreateUpdateData(V1010, 10010, "normal", 100, FALSE),
      CreateUpdateData(V120, 10200, "forced", 200, TRUE),
      CreateUpdateData(V109, 10300, "beta", 300, TRUE) }

ReleaseVersions == { d.version : d \in CreateUpdateDto }

\* The update checks clients send: user u1 from versions 1.0.8, 1.0 and
\* 1.0.10, user u2 from 1.0.8.
CheckUpdateData(version, userId) ==
    [ version |-> version, platform |-> "darwin", userId |-> userId,
      appVersion |-> Undefined ]

CheckUpdateDto ==
    { CheckUpdateData(v, "u1") :
        v \in { << "1", ".", "0", ".", "8" >>, << "1", ".", "0" >>, V1010 } }
      \cup { CheckUpdateData(<< "1", ".", "0", ".", "8" >>, "u2") }

DefaultDownloadCount == 0

\* prisma.update.create
NewUpdateRow(data) ==
    [ version |-> data.version, buildNumber |-> data.buildNumber,
      releaseType |-> data.releaseType, filename |-> data.filename,
      fileSize |-> data.fileSize, checksum |-> data.checksum,
      releaseNotes |-> data.releaseNotes, forceUpdate |-> data.forceUpdate,
      isActive |-> TRUE, downloadCount |-> DefaultDownloadCount ]

\* prisma.update.findUnique({ where: { version } }): the row's id, 0 for null
UpdateIdOf(upds, version) ==
    IF \E i \in 1 .. Len(upds) : upds[i].version = version
    THEN CHOOSE i \in 1 .. Len(upds) : upds[i].version = version
    ELSE 0

\* a filter on the build number alone
NewerAnyState(upds, build) ==
    { i \in 1 .. Len(upds) : upds[i].buildNumber > build }

\* where: { isActive: true, buildNumber: { gt: build } }
ActiveNewer(upds, build) ==
    { i \in 1 .. Len(upds) : upds[i].isActive /\ upds[i].buildNumber > build }

\* an ordering that puts the lowest build number first
FindFirstAscending(upds, build) ==
    { i \in ActiveNewer(upds, build) :
        \A j \in ActiveNewer(upds, build) :
           upds[j].buildNumber >= upds[i].buildNumber }

\* findFirst with orderBy buildNumber desc: the rows it may return (rows of
\* equal build number come in no defined order), none for null
FindFirstDescending(upds, build) ==
    { i \in ActiveNewer(upds, build) :
        \A j \in ActiveNewer(upds, build) :
           upds[j].buildNumber <= upds[i].buildNumber }

\* history data with the two versions exchanged
NewHistoryRowSwapped(updateId, data, latestUpdate) ==
    [ updateId |-> updateId, userId |-> data.userId,
      fromVersion |-> latestUpdate.version, toVersion |-> data.version,
      updateType |-> "manual", status |-> "started",
      platform |-> data.platform, appVersion |-> data.appVersion ]

\* the data checkForUpdate passes to recordUpdateHistory
NewHistoryRow(updateId, data, latestUpdate) ==
    [ updateId |-> updateId, userId |-> data.userId,
      fromVersion |-> data.version, toVersion |-> latestUpdate.version,
      updateType |-> "manual", status |-> "started",
      platform |-> data.platform, appVersion |-> data.appVersion ]

\* createdAt of a new UpdateHistory row: the column default, the time of
\* creation
DefaultCreatedAt(t) == t

\* recordUpdateHistory: prisma.updateHistory.create({ data }).  The columns
\* that data does not give are null (errorMessage, completedAt) or take the
\* column default (createdAt).
recordUpdateHistory(data, t) ==
    [ updateId |-> data.updateId, userId |-> data.userId,
      fromVersion |-> data.fromVersion, toVersion |-> data.toVersion,
      updateType |-> data.updateType, status |-> data.status,
      platform |-> data.platform, appVersion |-> data.appVersion,
      errorMessage |-> Undefined, createdAt |-> DefaultCreatedAt(t),
      completedAt |-> NoTime ]

\* UpdateResponse values
NoUpdate ==
    [ updateAvailable |-> FALSE, latestVersion |-> << >>,
      message |-> "You are running the latest version", error |-> Undefined ]

UpdateAvailable(latestUpdate) ==
    [ updateAvailable |-> TRUE,
      latestVersion |->
        << [ version |-> latestUpdate.version,
             buildNumber |-> latestUpdate.buildNumber,
             releaseType |-> latestUpdate.releaseType,
             downloadUrl |-> << "/api/v2/updates/download/",
                                latestUpdate.version >>,
             fileSize |-> latestUpdate.fileSize,
             checksum |-> latestUpdate.checksum,
             releaseNotes |-> latestUpdate.releaseNotes,
             forceUpdate |-> latestUpdate.forceUpdate ] >>,
      message |-> Undefined, error |-> Undefined ]

\* createUpdate
CreateUpdate(data) ==
    /\ IF UpdateIdOf(updates, data.version) # 0
       THEN /\ resp' = Response("createUpdate",
                           Thrown("BadRequestError", "Update version already exists"))
            /\ UNCHANGED updates
       ELSE /\ updates' = Append(updates, NewUpdateRow(data))
            /\ resp' = Response("createUpdate", Returned)
    /\ UNCHANGED << now, licenseVars, updateHistory, utilVars >>

\* checkForUpdate
CheckForUpdate(data) ==
    LET currentBuildNumber == versionToBuildNumber(data.version)[1]
        found == FindFirstDescending(updates, currentBuildNumber)
    IN  /\ found # { } => Len(updateHistory) < MaxHistory
        /\ IF found = { }
           THEN /\ resp' = Response("checkForUpdate", NoUpdate)
                /\ UNCHANGED updateHistory
           ELSE \E id \in found :
                   /\ updateHistory' =
                        Append(updateHistory,
                               recordUpdateHistory(
                                   NewHistoryRow(id, data, updates[id]), now))
                   /\ resp' = Response("checkForUpdate",
                                       UpdateAvailable(updates[id]))
        /\ UNCHANGED << now, licenseVars, updates, utilVars >>

\* deactivateUpdate: update throws when no row has the version
DeactivateUpdate(version) ==
    LET id == UpdateIdOf(updates, version)
    IN  /\ IF id = 0
           THEN /\ resp' = Response("deactivateUpdate",
                               Thrown("PrismaClientKnownRequestError",
                                      "Record to update not found"))
                /\ UNCHANGED updates
           ELSE /\ updates' = [ updates EXCEPT ![id].isActive = FALSE ]
                /\ resp' = Response("deactivateUpdate", Returned)
        /\ UNCHANGED << now, licenseVars, updateHistory, utilVars >>

NextUpdate ==
    \/ \E d \in CreateUpdateDto : CreateUpdate(d)
    \/ \E d \in CheckUpdateDto : CheckForUpdate(d)
    \/ \E v \in ReleaseVersions : DeactivateUpdate(v)

SpecUpdate == InitCreate /\ [][NextUpdate]_vars

(***************************************************************************)
(* POST /history: validateBody(recordHistorySchema), then                  *)
(* UpdateController.recordHistory, then UpdateService.updateHistoryStatus. *)
(* The clock runs, so history rows differ in createdAt.                    *)
(***************************************************************************)
HistoryBody(userId, toVersion, status, errorMessage) ==
    [ userId |-> userId, fromVersion |-> << "1", ".", "0", ".", "8" >>,
      toVersion |-> toVersion, status |-> status,
      errorMessage |-> errorMessage ]

\* The reports clients send (each passes recordHistorySchema): users u1 and
\* u2, target versions 1.0.9 and 1.0.10, the three statuses; a failure
\* comes with an error message, the others without.
RecordHistoryBodies ==
    { HistoryBody(u, v, st, IF st = "failed" THEN "install failed" ELSE Undefined) :
        u \in { "u1", "u2" }, v \in { V109, V1010 },
        st \in { "started", "completed", "failed" } }

\* what the controller answers
HistoryAccepted == [ success |-> TRUE, message |-> Undefined, error |-> Undefined ]

HistoryRecorded ==
    [ success |-> TRUE, message |-> "Update history recorded",
      error |-> Undefined ]

\* a filter that forgets the status
StartedRowsAnyStatus(hist, userId, toVersion) ==
    { i \in 1 .. Len(hist) :
        hist[i].userId = userId /\ hist[i].toVersion = toVersion }

\* where: { userId, toVersion, status: 'started' }
StartedRows(hist, userId, toVersion) ==
    { i \in 1 .. Len(hist) :
        /\ hist[i].userId = userId
        /\ hist[i].toVersion = toVersion
        /\ hist[i].status = "started" }

\* an ordering that puts the oldest row first
FindFirstOldest(hist, userId, toVersion) ==
    { i \in StartedRows(hist, userId, toVersion) :
        \A j \in StartedRows(hist, userId, toVersion) :
           hist[j].createdAt >= hist[i].createdAt }

\* findFirst with orderBy createdAt desc: the rows it may return (rows of
\* equal createdAt come in no defined order), none for null
FindFirstLatest(hist, userId, toVersion) ==
    { i \in StartedRows(hist, userId, toVersion) :
        \A j \in StartedRows(hist, userId, toVersion) :
           hist[j].createdAt <= hist[i].createdAt }

\* an update that stamps completedAt whatever the status
CloseHistoryAlwaysStamped(hist, id, status, errorMessage, t) ==
    [ hist EXCEPT ![id].status = status,
                  ![id].errorMessage =
                      IF errorMessage = Undefined THEN @ ELSE errorMessage,
                  ![id].completedAt = t ]

\* updateHistory.update({ data: { status, errorMessage, completedAt } }): a
\* property that is undefined leaves its column as it is
CloseHistory(hist, id, status, errorMessage, t) ==
    [ hist EXCEPT ![id].status = status,
                  ![id].errorMessage =
                      IF errorMessage = Undefined THEN @ ELSE errorMessage,
                  ![id].completedAt = IF status = "completed" THEN t ELSE @ ]

\* updateHistoryStatus, and the answer of the controller that called it
UpdateHistoryStatus(userId, toVersion, status, errorMessage) ==
    LET history == FindFirstLatest(updateHistory, userId, toVersion)
    IN  /\ IF history = { }
           THEN UNCHANGED updateHistory
           ELSE \E id \in history :
                   updateHistory' =
                     CloseHistory(updateHistory, id, status, errorMessage, now)
        /\ resp' = Response("recordHistory", HistoryRecorded)
        /\ UNCHANGED << now, licenseVars, updates, utilVars >>

\* a controller that records a report of 'started' as a new row
RecordHistoryStartedCreates(body) ==
    IF body.status = "started"
    THEN /\ Len(updateHistory) < MaxHistory
         /\ updateHistory' =
              Append(updateHistory,
                     recordUpdateHistory(
                         [ updateId |-> 0, userId |-> body.userId,
                           fromVersion |-> body.fromVersion,
                           toVersion |-> body.toVersion,
                           updateType |-> "manual", status |-> body.status,
                           platform |-> Undefined, appVersion |-> Undefined ],
                         now))
         /\ resp' = Response("recordHistory", HistoryAccepted)
         /\ UNCHANGED << now, licenseVars, updates, utilVars >>
    ELSE UpdateHistoryStatus(body.userId, body.toVersion, body.status,
                             body.errorMessage)

\* recordHistory: a report of 'started' is answered without a call of the
\* service
RecordHistory(body) ==
    IF body.status = "started"
    THEN /\ resp' = Response("recordHistory", HistoryAccepted)
         /\ UNCHANGED << now, licenseVars, updateVars, utilVars >>
    ELSE UpdateHistoryStatus(body.userId, body.toVersion, body.status,
                             body.errorMessage)

\* the releases published and the checks sent while reports come in
HistoryReleases == { d \in CreateUpdateDto : d.releaseType = "normal" }

HistoryChecks == { d \in CheckUpdateDto : d.version = << "1", ".", "0", ".", "8" >> }

NextHistory ==
    \/ Tick
    \/ \E d \in HistoryReleases : CreateUpdate(d)
    \/ \E d \in HistoryChecks : CheckForUpdate(d)
    \/ \E body \in RecordHistoryBodies : RecordHistory(body)

SpecHistory == InitCreate /\ [][NextHistory]_vars

(***************************************************************************)
(* GET /download/:version: UpdateController.downloadUpdate, with           *)
(* getUpdateByVersion and incrementDownloadCount of UpdateService.         *)
(* Whether the artifact is in the upload directory is an input of the      *)
(* request (fs.existsSync).                                                *)
(***************************************************************************)
\* the response that streams the artifact
Served(update) ==
    [ status |-> 200, filename |-> update.filename, error |-> Undefined ]

\* res.status(404).json({ success: false, error: 'Update file not found' })
FileNotFound ==
    [ status |-> 404, filename |-> Undefined, error |-> Undefined,
      message |-> "Update file not found" ]

\* an increment that resets the counter of every other release
IncrementDownloadCountOnly(upds, id) ==
    [ i \in 1 .. Len(upds) |->
        IF i = id
        THEN [ upds[i] EXCEPT !.downloadCount = @ + 1 ]
        ELSE [ upds[i] EXCEPT !.downloadCount = 0 ] ]

\* incrementDownloadCount: downloadCount: { increment: 1 }
IncrementDownloadCount(upds, id) ==
    [ upds EXCEPT ![id].downloadCount = @ + 1 ]

\* downloadUpdate
DownloadUpdate(version, fileExists) ==
    LET id == UpdateIdOf(updates, version)
    IN  /\ id # 0 => updates[id].downloadCount < MaxDownloads
        /\ IF id = 0
           THEN /\ resp' = Response("downloadUpdate",
                               Thrown("NotFoundError", "Update version not found"))
                /\ UNCHANGED updates
           ELSE /\ updates' = IncrementDownloadCount(updates, id)
                /\ resp' = Response("downloadUpdate",
                               IF fileExists THEN Served(updates[id])
                                             ELSE FileNotFound)
        /\ UNCHANGED << now, licenseVars, updateHistory, utilVars >>

\* the releases published, and the checks sent, while releases are
\* downloaded
DownloadReleases == { d \in CreateUpdateDto : d.releaseType # "beta" }

DownloadChecks == { d \in HistoryChecks : d.userId = "u1" }

NextDownload ==
    \/ \E d \in DownloadReleases : CreateUpdate(d)
    \/ \E d \in DownloadChecks : CheckForUpdate(d)
    \/ \E v \in ReleaseVersions : DeactivateUpdate(v)
    \/ \E v \in ReleaseVersions, fileExists \in BOOLEAN :
          DownloadUpdate(v, fileExists)

SpecDownload == InitCreate /\ [][NextDownload]_vars

(***************************************************************************)
(* The admin routes of both routers: requireAdminSecret in front of the    *)
(* handler (src/unnamed/part_002, license.routes.ts, src/unnamed/part_000),*)
(* next to the public routes that fill the tables.  A request carries the  *)
(* values of its x-admin-secret header: none or one.                       *)
(***************************************************************************)
\* config.adminSecret: ADMIN_SECRET, of 16 characters at least
AdminSecret == "0123456789abcdef"

\* the header absent, empty, wrong and right
SecretHeaders == { << >>, << "" >>, << "0123456789abcdeX" >>, << AdminSecret >> }

\* a gate that lets every request with a non-empty header pass
requireAdminSecretAnyValue(headers) ==
    ~ ( headers = << >> \/ headers[1] = "" )

\* requireAdminSecret: TRUE when it calls next() without an error, FALSE
\* when it throws (!adminSecret || adminSecret !== config.adminSecret)
requireAdminSecret(headers) ==
    ~ ( headers = << >> \/ headers[1] = "" \/ headers[1] # AdminSecret )

Unauthorized == Thrown("UnauthorizedError", "Invalid admin secret")

\* an admin route: the gate, then the handler
AdminRoute(op, headers, handler) ==
    IF requireAdminSecret(headers)
    THEN handler
    ELSE /\ resp' = Response(op, Unauthorized)
         /\ UNCHANGED << now, licenseVars, updateVars, utilVars >>

\* what a handler returns with a payload
ReturnedData(data) == [ Returned EXCEPT !.data = << data >> ]

\* getLicenseInfo
GetLicenseInfo(licenseKey) ==
    LET license == FindLicenseWithActiveActivations(licenses, activations,
                                                    licenseKey)
    IN  /\ resp' = Response("getLicenseInfo",
                            IF license.id = 0
                            THEN Thrown("NotFoundError", "License not found")
                            ELSE ReturnedData(license))
        /\ UNCHANGED << now, licenseVars, updateVars, utilVars >>

\* Math.ceil(total / limit)
Pages(total, limit) == (total + limit - 1) \div limit

\* rows skip+1 .. skip+take of a listing
PageOf(listing, page, limit) ==
    SubSeq(listing, (page - 1) * limit + 1,
           IF page * limit < Len(listing) THEN page * limit ELSE Len(listing))

\* getAllLicenses(page, limit): the licenses from the newest to the oldest,
\* each with its active activations
GetAllLicenses(page, limit) ==
    LET listing ==
          [ i \in 1 .. Len(licenses) |->
              FindLicenseWithActiveActivations(licenses, activations,
                  licenses[Len(licenses) + 1 - i].licenseKey) ]
    IN  /\ resp' = Response("getAllLicenses",
                     ReturnedData([ licenses |-> PageOf(listing, page, limit),
                                    page |-> page, limit |-> limit,
                                    total |-> Len(licenses),
                                    pages |-> Pages(Len(licenses), limit) ]))
        /\ UNCHANGED << now, licenseVars, updateVars, utilVars >>

\* LicenseService.getStatistics
GetLicenseStatistics ==
    /\ resp' = Response("getLicenseStatistics",
         ReturnedData(
           [ totalLicenses |-> Len(licenses),
             activeLicenses |->
               Cardinality({ i \in 1 .. Len(licenses) : licenses[i].isActive }),
             totalActivations |->
               Cardinality({ i \in 1 .. Len(activations) :
                               activations[i].isActive }),
             licensesByPlan |->
               { << plan, Cardinality({ i \in 1 .. Len(licenses) :
                                          licenses[i].plan = plan }) >> :
                   plan \in { licenses[i].plan : i \in 1 .. Len(licenses) } } ]))
    /\ UNCHANGED << now, licenseVars, updateVars, utilVars >>

\* orderBy: { buildNumber: 'desc' }: the ids of the releases in that order
\* (for equal build numbers, in one of the orders storage may give)
RECURSIVE ByBuildNumberDesc(_, _)
ByBuildNumberDesc(upds, ids) ==
    IF ids = { }
    THEN << >>
    ELSE LET first == CHOOSE i \in ids :
                         \A j \in ids : upds[j].buildNumber <= upds[i].buildNumber
         IN  << upds[first] >> \o ByBuildNumberDesc(upds, ids \ { first })

\* getAllUpdates(page, limit)
GetAllUpdates(page, limit) ==
    /\ resp' = Response("getAllUpdates",
         ReturnedData(
           [ updates |-> PageOf(ByBuildNumberDesc(updates, 1 .. Len(updates)),
                                page, limit),
             page |-> page, limit |-> limit, total |-> Len(updates),
             pages |-> Pages(Len(updates), limit) ]))
    /\ UNCHANGED << now, licenseVars, updateVars, utilVars >>

\* seven days, in ticks of the clock: longer than the clock of the model
\* runs
Week == MaxTime + 1

RECURSIVE Sum(_, _)
Sum(upds, n) == IF n = 0 THEN 0 ELSE Sum(upds, n - 1) + upds[n].downloadCount

\* UpdateService.getStatistics
GetUpdateStatistics ==
    /\ resp' = Response("getUpdateStatistics",
         ReturnedData(
           [ totalUpdates |-> Len(updates),
             activeUpdates |->
               Cardinality({ i \in 1 .. Len(updates) : updates[i].isActive }),
             totalDownloads |-> Sum(updates, Len(updates)),
             recentHistory |->
               Cardinality({ i \in 1 .. Len(updateHistory) :
                               updateHistory[i].createdAt >= now - Week }) ]))
    /\ UNCHANGED << now, licenseVars, updateVars, utilVars >>

\* The requests: one license (key KeyA, plan "2 Devices") validated from
\* machines m1 and m2, one release (1.0.9) offered to user u1, listings
\* with the default page and limit.
AdminCreateBody == CreateBody("2 Devices", << >>)
AdminValidations ==
    { d \in ValidateLicenseDto :
        d.licenseKey = KeyA /\ d.machineId \in { "m1", "m2" } }
AdminRelease == CHOOSE d \in CreateUpdateDto : d.buildNumber = 10009
AdminCheck == CHOOSE d \in DownloadChecks : TRUE
DefaultPage == 1
DefaultLimit == 50

\* the requests to the admin routes with header values h
AdminRequest(h) ==
    \/ AdminRoute("createLicense", h, PostAdminLicenses(KeyA, AdminCreateBody))
    \/ AdminRoute("getAllLicenses", h,
                  GetAllLicenses(DefaultPage, DefaultLimit))
    \/ AdminRoute("getLicenseStatistics", h, GetLicenseStatistics)
    \/ AdminRoute("getLicenseInfo", h, GetLicenseInfo(KeyA))
    \/ AdminRoute("deactivateLicense", h, DeactivateLicense(KeyA))
    \/ \E m \in { "m1", "m2" } :
          AdminRoute("deactivateDevice", h, DeactivateDevice(KeyA, m))
    \/ AdminRoute("createUpdate", h, CreateUpdate(AdminRelease))
    \/ AdminRoute("getAllUpdates", h, GetAllUpdates(DefaultPage, DefaultLimit))
    \/ AdminRoute("getUpdateStatistics", h, GetUpdateStatistics)
    \/ AdminRoute("deactivateUpdate", h, DeactivateUpdate(AdminRelease.version))

NextAdmin ==
    \/ \E d \in AdminValidations : ValidateLicense(d)
    \/ CheckForUpdate(AdminCheck)
    \/ \E h \in SecretHeaders : AdminRequest(h)

SpecAdmin == InitCreate /\ [][NextAdmin]_vars

(***************************************************************************)
(* The helpers of utils/licenseKey.ts, each applied to one argument.       *)
(* `input` is the helper and its argument, `output` what it returned       *)
(* (empty until it has returned).                                          *)
(***************************************************************************)
\* values of a random byte: with them a segment's base64 text has capitals,
\* small letters, digits, "+" and "/" (and may be "////")
RandomByteValues == { 0, 251, 255 }

\* the bytes randomBytes(3) returns in the three rounds of the loop
RandomInputs == [ 1 .. 3 -> [ 1 .. 3 -> RandomByteValues ] ]

\* parts.join(sep)
RECURSIVE join(_, _)
join(parts, sep) ==
    IF Len(parts) = 1
    THEN parts[1]
    ELSE parts[1] \o << sep >> \o join(SubSeq(parts, 2, Len(parts)), sep)

\* the texts between the dashes of the keys isValidLicenseKeyFormat is
\* given: two prefixes, and segments ABCDE, 12345, XY9Z0, ABCD, abcde, AB+DE
PrefixInputs ==
    { << "M", "A", "C", "M", "A", "N" >>, << "m", "a", "c", "m", "a", "n" >> }

SegmentInputs ==
    { << "A", "B", "C", "D", "E" >>, << "1", "2", "3", "4", "5" >>,
      << "X", "Y", "9", "Z", "0" >>, << "A", "B", "C", "D" >>,
      << "a", "b", "c", "d", "e" >>, << "A", "B", "+", "D", "E" >> }

KeyFormatInputs ==
    { join(<< prefix >> \o segments, "-") :
        prefix \in PrefixInputs,
        segments \in UNION { [ 1 .. n -> SegmentInputs ] : n \in 2 .. MaxSegments } }

\* the versions versionToBuildNumber is given
VersionInputs ==
    { << "1", ".", "0", ".", "8" >>, << "1", ".", "2", ".", "0" >>,
      << "1", ".", "0" >>, << "1", ".", "0", ".", "0" >>, << "1" >>,
      << "1", ".", "0", ".", "9" >>, << "1", ".", "0", ".", "1", "0" >>,
      << "2", ".", "1", "0", ".", "3" >>, << "1", ".", "0", ".", "8", ".", "5" >>,
      << "1", ".", ".", "8" >>, << "1", ".", "x", ".", "2" >>,
      << "v", "1", ".", "0" >> }

UtilInput(fn, arg) == [ fn |-> fn, arg |-> arg ]

InitUtil ==
    /\ now = 0
    /\ licenses = << >> /\ activations = << >> /\ calls = << >>
    /\ resp = Response("none", Returned)
    /\ updates = << >> /\ updateHistory = << >>
    /\ input \in { UtilInput("generateLicenseKey", r) : r \in RandomInputs }
               \cup { UtilInput("isValidLicenseKeyFormat", k) : k \in KeyFormatInputs }
               \cup { UtilInput("versionToBuildNumber", v) : v \in VersionInputs }
    /\ output = << >>

GenerateLicenseKey ==
    /\ input.fn = "generateLicenseKey" /\ output = << >>
    /\ output' = << generateLicenseKey(input.arg) >>
    /\ UNCHANGED << now, resp, licenseVars, updateVars, input >>

IsValidLicenseKeyFormat ==
    /\ input.fn = "isValidLicenseKeyFormat" /\ output = << >>
    /\ output' = << isValidLicenseKeyFormat(input.arg) >>
    /\ UNCHANGED << now, resp, licenseVars, updateVars, input >>

VersionToBuildNumber ==
    /\ input.fn = "versionToBuildNumber" /\ output = << >>
    /\ output' = << versionToBuildNumber(input.arg) >>
    /\ UNCHANGED << now, resp, licenseVars, updateVars, input >>

NextUtil ==
    \/ GenerateLicenseKey
    \/ IsValidLicenseKeyFormat
    \/ VersionToBuildNumber

SpecUtil == InitUtil /\ [][NextUtil]_vars

(***************************************************************************)
(* compareVersions next to versionToBuildNumber: `input` is the helper and *)
(* its argument, a pair of versions for compareVersions.                   *)
(***************************************************************************)
\* the loop of compareVersions from index i on: parts[i] || 0 on both
\* sides, 1 or -1 at the first difference, 0 past the longer list
RECURSIVE CompareFrom(_, _, _, _)
CompareFrom(parts1, parts2, i, last) ==
    IF i > last
    THEN 0
    ELSE LET num1 == PartOrZero(parts1, i)
             num2 == PartOrZero(parts2, i)
         IN  IF num1 > num2 THEN 1
             ELSE IF num1 < num2 THEN -1
             ELSE CompareFrom(parts1, parts2, i + 1, last)

\* Math.max(parts1.length, parts2.length)
MathMax(a, b) == IF a > b THEN a ELSE b

\* a comparison that stops after the second component
compareVersionsMajorMinor(v1, v2) ==
    CompareFrom(split(v1, "."), split(v2, "."), 1, 2)

\* compareVersions: 1 if v1 > v2, -1 if v1 < v2, 0 if equal
compareVersions(v1, v2) ==
    LET parts1 == split(v1, ".")
        parts2 == split(v2, ".")
    IN  CompareFrom(parts1, parts2, 1, MathMax(Len(parts1), Len(parts2)))

\* the versions compared: 0.99.99, 1.0.8, 1.0.9, 1.0.10, 1.0.99, 1.0.100,
\* 1.1.0, 1.1.1, 1.2.0, 1.10.3, 1.100.0, 2.0.0, 1.0 and 1.x.2
CompareInputs ==
    { << "0", ".", "9", "9", ".", "9", "9" >>,
      << "1", ".", "0", ".", "8" >>, V109, V1010,
      << "1", ".", "0", ".", "9", "9" >>,
      << "1", ".", "0", ".", "1", "0", "0" >>,
      << "1", ".", "1", ".", "0" >>, << "1", ".", "1", ".", "1" >>, V120,
      << "1", ".", "1", "0", ".", "3" >>,
      << "1", ".", "1", "0", "0", ".", "0" >>,
      << "2", ".", "0", ".", "0" >>,
      << "1", ".", "0" >>, << "1", ".", "x", ".", "2" >> }

InitCompare ==
    /\ now = 0
    /\ licenses = << >> /\ activations = << >> /\ calls = << >>
    /\ resp = Response("none", Returned)
    /\ updates = << >> /\ updateHistory = << >>
    /\ input \in { UtilInput("compareVersions", << v1, v2 >>) :
                      v1 \in CompareInputs, v2 \in CompareInputs }
               \cup { UtilInput("versionToBuildNumber", v) : v \in CompareInputs }
    /\ output = << >>

CompareVersions ==
    /\ input.fn = "compareVersions" /\ output = << >>
    /\ output' = << compareVersions(input.arg[1], input.arg[2]) >>
    /\ UNCHANGED << now, resp, licenseVars, updateVars, input >>

NextCompare ==
    \/ CompareVersions
    \/ VersionToBuildNumber

SpecCompare == InitCompare /\ [][NextCompare]_vars

(***************************************************************************)
(* Properties.  What a claim says of the storage is stated on the tables   *)
(* themselves, not through the operators of the service.                   *)
(***************************************************************************)
LicenseIds == 1 .. Len(licenses)

\* the rows that are active activations of license id
ActiveRows(id) ==
    { i \in 1 .. Len(activations) :
        activations[i].licenseId = id /\ activations[i].isActive }

ActiveRowsAfter(id) ==
    { i \in 1 .. Len(activations') :
        activations'[i].licenseId = id /\ activations'[i].isActive }

\* the rows of license id and machine m, active or not
RowsOf(id, m) ==
    { i \in 1 .. Len(activations) :
        activations[i].licenseId = id /\ activations[i].machineId = m }

Bound(id, m) == \E i \in ActiveRows(id) : activations[i].machineId = m

\* the license with this key: a set of at most one id
Holders(key) == { id \in LicenseIds : licenses[id].licenseKey = key }

\* active, and not past an expiry date
Usable(id) ==
    /\ licenses[id].isActive
    /\ licenses[id].expiresAt = NoTime \/ licenses[id].expiresAt >= now

Failed(r, errorType) == ~r.valid /\ r.errorType = errorType

\* C1: on an active, unexpired license with maxDevices = N, a validation
\* from a machine that holds no slot succeeds and takes a slot while fewer
\* than N machines hold one, and is refused with max_devices_reached once
\* N machines hold one: the first N distinct machines are admitted, the
\* (N+1)-th is refused, whichever machines come first.
C1_QuotaAdmission ==
    [][ \A d \in ValidateLicenseDto : \A id \in Holders(d.licenseKey) :
          ( /\ resp'.op = "validateLicense"
            /\ Usable(id) /\ ~Bound(id, d.machineId)
            /\ ValidateLicense(d) ) =>
             IF Cardinality(ActiveRows(id)) < licenses[id].maxDevices
             THEN /\ resp'.result.valid
                  /\ Cardinality(ActiveRowsAfter(id))
                       = Cardinality(ActiveRows(id)) + 1
                  /\ \E i \in ActiveRowsAfter(id) :
                        activations'[i].machineId = d.machineId
             ELSE /\ Failed(resp'.result, "max_devices_reached")
                  /\ activations' = activations
      ]_vars

\* N machines hold the N slots of a license with N = 2, and the validation
\* that completed last was refused for the quota.
C1_Witness ==
    /\ resp.op = "validateLicense"
    /\ Failed(resp.result, "max_devices_reached")
    /\ \E id \in LicenseIds :
          /\ licenses[id].maxDevices = 2
          /\ Usable(id)
          /\ Cardinality({ activations[i].machineId : i \in ActiveRows(id) }) = 2

\* C3: a validation from a machine that already holds a slot of an active,
\* unexpired license adds no activation, leaves every count and the license
\* alone, writes only lastSeenAt, osVersion and appVersion of that one
\* activation, and returns valid with the number of active activations,
\* which is the deviceCount the validation before it returned.
C3_RevalidationIdempotent ==
    [][ \A d \in ValidateLicenseDto : \A id \in Holders(d.licenseKey) :
          ( /\ resp'.op = "validateLicense"
            /\ Usable(id) /\ Bound(id, d.machineId)
            /\ ValidateLicense(d) ) =>
             /\ licenses' = licenses
             /\ \E i \in ActiveRows(id) :
                   /\ activations[i].machineId = d.machineId
                   /\ activations' =
                        [ activations EXCEPT ![i].lastSeenAt = now,
                                             ![i].osVersion = d.osVersion,
                                             ![i].appVersion = d.appVersion ]
             /\ resp'.result.valid
             /\ resp'.result.data[1].deviceCount = Cardinality(ActiveRows(id))
             /\ resp'.result.data[1].deviceCount = licenses[id].deviceCount
             /\ ( /\ resp.op = "validateLicense"
                  /\ resp.result.valid
                  /\ resp.result.data[1].licenseKey = d.licenseKey ) =>
                   resp'.result.data[1].deviceCount
                     = resp.result.data[1].deviceCount
      ]_vars

\* A machine was validated again with other versions and another device
\* name: its activation holds the new versions and the name it was created
\* with, and it is still the only activation of that machine.
C3_Witness ==
    /\ resp.op = "validateLicense"
    /\ resp.result.valid
    /\ resp.result.message = "License validated successfully"
    /\ \E i \in 1 .. Len(activations) :
          /\ activations[i].isActive
          /\ activations[i].lastSeenAt # NoTime
          /\ activations[i].deviceName = "mac-1"
          /\ activations[i].osVersion = "15.0"
          /\ RowsOf(activations[i].licenseId, activations[i].machineId) = { i }

\* C4: between calls, the cached deviceCount of every license is the number
\* of its active activations.
C4_DeviceCountIsActiveCount ==
    \A id \in LicenseIds :
       licenses[id].deviceCount = Cardinality(ActiveRows(id))

\* A license that has had a device deactivated and a device validated since:
\* one active and one inactive activation, and a count of one.
C4_Witness ==
    \E id \in LicenseIds :
       /\ licenses[id].deviceCount = 1
       /\ \E i, j \in 1 .. Len(activations) :
             /\ activations[i].licenseId = id /\ activations[i].isActive
             /\ activations[j].licenseId = id /\ ~activations[j].isActive

\* the error type and message of the first check that applies to request d,
\* read off the stored state
ExpectedOutcome(d) ==
    IF ~isValidLicenseKeyFormat(d.licenseKey)
    THEN << "invalid_key", "Invalid license key format" >>
    ELSE IF Holders(d.licenseKey) = { }
    THEN << "invalid_key", "License key not found" >>
    ELSE LET id == CHOOSE id \in Holders(d.licenseKey) : TRUE
         IN  IF ~licenses[id].isActive
             THEN << "inactive", "This license has been deactivated" >>
             ELSE IF ~Usable(id)
             THEN << "expired", "This license has expired" >>
             ELSE IF Bound(id, d.machineId)
             THEN << Undefined, "License validated successfully" >>
             ELSE IF Cardinality(ActiveRows(id)) >= licenses[id].maxDevices
             THEN << "max_devices_reached",
                     "Maximum number of devices reached for this license" >>
             ELSE << Undefined, "License activated successfully" >>

\* C7: validateLicense returns the outcome of the first check that applies,
\* in the order format, existence, inactive, expired, already bound, quota,
\* new activation.
C7_CheckOrder ==
    [][ \A d \in ValidateLicenseDto :
          ( resp'.op = "validateLicense" /\ ValidateLicense(d) ) =>
             /\ << resp'.result.errorType, resp'.result.message >>
                  = ExpectedOutcome(d)
             /\ resp'.result.valid = (resp'.result.errorType = Undefined)
      ]_vars

\* A license that has expired while a machine holds its slot, and the
\* validation that completed last was refused as expired.
C7_Witness ==
    /\ resp.op = "validateLicense"
    /\ Failed(resp.result, "expired")
    /\ \E id \in LicenseIds :
          /\ licenses[id].isActive
          /\ ~Usable(id)
          /\ ActiveRows(id) # { }

\* a successful deactivateDevice(key of id, m) is the step being taken
DeactivatesDevice(id, m) ==
    /\ resp'.op = "deactivateDevice"
    /\ Bound(id, m)
    /\ DeactivateDevice(licenses[id].licenseKey, m)

\* C8: a successful deactivateDevice frees the slot of its machine (one
\* active activation and one unit of deviceCount less, a slot free), and a
\* validation of a machine that was deactivated, on an active, unexpired
\* license with a free slot, succeeds with a new activation and gives both
\* counts back exactly one: deactivating and validating again returns the
\* counts to what they were.
C8_DeactivateThenRevalidate ==
    [][ /\ \A id \in LicenseIds : \A m \in Machines :
              DeactivatesDevice(id, m) =>
                 /\ Cardinality(ActiveRowsAfter(id))
                      = Cardinality(ActiveRows(id)) - 1
                 /\ licenses'[id].deviceCount = licenses[id].deviceCount - 1
                 /\ Cardinality(ActiveRowsAfter(id)) < licenses'[id].maxDevices
                 /\ \A i \in ActiveRowsAfter(id) :
                       activations'[i].machineId # m
        /\ \A d \in ValidateLicenseDto : \A id \in Holders(d.licenseKey) :
              ( /\ resp'.op = "validateLicense"
                /\ Usable(id)
                /\ RowsOf(id, d.machineId) # { }
                /\ ~Bound(id, d.machineId)
                /\ Cardinality(ActiveRows(id)) < licenses[id].maxDevices
                /\ ValidateLicense(d) ) =>
                 /\ resp'.result.valid
                 /\ Len(activations') = Len(activations) + 1
                 /\ Cardinality(ActiveRowsAfter(id))
                      = Cardinality(ActiveRows(id)) + 1
                 /\ licenses'[id].deviceCount = licenses[id].deviceCount + 1
                 /\ resp'.result.data[1].deviceCount
                      = licenses[id].deviceCount + 1
      ]_vars

\* A machine of a full license was deactivated and validated again: it has
\* an inactive and an active activation, and the license is full as before.
C8_Witness ==
    /\ resp.op = "validateLicense"
    /\ resp.result.valid
    /\ resp.result.message = "License activated successfully"
    /\ \E id \in LicenseIds : \E m \in Machines :
          /\ \E i, j \in RowsOf(id, m) :
                activations[i].isActive /\ ~activations[j].isActive
          /\ licenses[id].deviceCount = licenses[id].maxDevices
          /\ resp.result.data[1].deviceCount = licenses[id].maxDevices
          /\ resp.result.data[1].licenseKey = licenses[id].licenseKey

\* C9: deactivateDevice throws NotFound when no license has the key or the
\* license has no active activation of the machine (also when the machine
\* has only inactive ones), and then writes nothing.
C9_DeactivateDeviceNotFound ==
    [][ \A k \in AdminKeyInputs : \A m \in Machines :
          ( /\ resp'.op = "deactivateDevice"
            /\ \A id \in Holders(k) : ~Bound(id, m)
            /\ DeactivateDevice(k, m) ) =>
             /\ resp'.result.error = "NotFoundError"
             /\ licenses' = licenses
             /\ activations' = activations
      ]_vars

\* Every device of some license has been deactivated, its count is zero,
\* and the deactivateDevice that completed last found no active device.
C9_Witness ==
    /\ resp.op = "deactivateDevice"
    /\ resp.result.error = "NotFoundError"
    /\ resp.result.message = "Device activation not found"
    /\ \E id \in LicenseIds :
          /\ ActiveRows(id) = { }
          /\ licenses[id].deviceCount = 0
          /\ \E i \in 1 .. Len(activations) : activations[i].licenseId = id
    /\ \A i \in 1 .. Len(activations) : ~activations[i].isActive

\* C10: a successful deactivateDevice returns, sets isActive = false and
\* deactivatedAt on the one active activation of that machine, lowers the
\* deviceCount of its license by one, and changes nothing else.
C10_DeactivateDeviceEffect ==
    [][ \A id \in LicenseIds : \A m \in Machines :
          DeactivatesDevice(id, m) =>
             /\ resp'.result.error = Undefined
             /\ \E i \in ActiveRows(id) :
                   /\ activations[i].machineId = m
                   /\ activations' =
                        [ activations EXCEPT ![i].isActive = FALSE,
                                             ![i].deactivatedAt = now ]
             /\ licenses' =
                  [ licenses EXCEPT ![id].deviceCount = @ - 1 ]
      ]_vars

\* One of two active devices was deactivated: the other is still active,
\* and both licenses are there.
C10_Witness ==
    /\ resp.op = "deactivateDevice"
    /\ resp.result.error = Undefined
    /\ Len(licenses) = 2
    /\ \E i, j \in 1 .. Len(activations) :
          /\ ~activations[i].isActive
          /\ activations[i].deactivatedAt # NoTime
          /\ activations[j].isActive
          /\ licenses[activations[i].licenseId].deviceCount
               = Cardinality(ActiveRows(activations[i].licenseId))

(***************************************************************************)
(* Properties of concurrent requests (SpecConc).                           *)
(***************************************************************************)
AllReturned == \A c \in DOMAIN calls : calls[c].pc \in { "idle", "done" }

\* C2: however the storage steps of concurrent validations interleave, no
\* license ever has more active activations than maxDevices.
C2_QuotaNeverExceeded ==
    \A id \in LicenseIds :
       Cardinality(ActiveRows(id)) <= licenses[id].maxDevices

\* C5: when a validateLicense that admitted a new machine and a
\* deactivateDevice that deactivated another machine of the same license
\* have both returned, the deviceCount of the license is the number of its
\* active activations.
C5_CountAfterValidateAndDeactivate ==
    \A c1, c2 \in DOMAIN calls :
       ( /\ AllReturned
         /\ calls[c1].op = "validateLicense" /\ calls[c1].branch = "new"
         /\ calls[c2].op = "deactivateDevice"
         /\ calls[c2].branch = "deactivate"
         /\ calls[c1].data.licenseKey = calls[c2].data.licenseKey
         /\ calls[c1].data.machineId # calls[c2].data.machineId ) =>
          \A id \in Holders(calls[c1].data.licenseKey) :
             licenses[id].deviceCount = Cardinality(ActiveRows(id))

\* C6: no (license, machine) pair ever has two active activations, also
\* when two validations of the same pair run concurrently.
C6_OneActiveActivationPerMachine ==
    \A id \in LicenseIds : \A m \in Machines :
       Cardinality({ i \in ActiveRows(id) : activations[i].machineId = m }) <= 1

(***************************************************************************)
(* Properties of the admin operations on licenses (Spec).                  *)
(***************************************************************************)
\* C11: deactivateLicense sets isActive of the license to false and leaves
\* its activations and its deviceCount alone; for a key that no license has
\* it fails with NotFound (404 at the boundary) and changes nothing.
C11_DeactivateLicense ==
    [][ \A k \in AdminKeyInputs :
          ( resp'.op = "deactivateLicense" /\ DeactivateLicense(k) ) =>
             /\ activations' = activations
             /\ IF Holders(k) # { }
                THEN /\ resp'.result.error = Undefined
                     /\ \E id \in Holders(k) :
                           licenses' = [ licenses EXCEPT ![id].isActive = FALSE ]
                ELSE /\ licenses' = licenses
                     /\ resp'.result.error = "NotFoundError"
                     /\ errorHandler(resp'.result).status = 404
      ]_vars

(***************************************************************************)
(* Properties of license creation (SpecCreate).                            *)
(***************************************************************************)
\* the quota the plan table gives a tier
PlanQuota(plan) ==
    CASE plan = "Individual" -> 1
      [] plan = "2 Devices" -> 2
      [] plan = "5 Devices" -> 5
      [] plan = "Enterprise" -> 999

\* request body `body` with key k is the create request being served
Creates(k, body) ==
    /\ resp'.op = "createLicense"
    /\ PostAdminLicenses(k, body)

\* C12: a create request that is accepted and whose key is free stores one
\* new license with the override as maxDevices when the request has one and
\* the plan table value otherwise, active, with deviceCount 0 and without
\* any activation; nothing else is written.
C12_CreateLicense ==
    [][ \A k \in GeneratedKeys : \A body \in CreateBodies :
          ( /\ body.plan \in PlanTiers
            /\ body.max_devices = << >> \/ body.max_devices[1] > 0
            /\ Holders(k) = { }
            /\ Creates(k, body) ) =>
             /\ resp'.result.error = Undefined
             /\ Len(licenses') = Len(licenses) + 1
             /\ SubSeq(licenses', 1, Len(licenses)) = licenses
             /\ LET row == licenses'[Len(licenses')]
                IN  /\ row.licenseKey = k
                    /\ row.plan = body.plan
                    /\ row.maxDevices =
                          IF body.max_devices # << >>
                          THEN body.max_devices[1]
                          ELSE PlanQuota(body.plan)
                    /\ row.isActive
                    /\ row.deviceCount = 0
             /\ activations' = activations
             /\ \A i \in 1 .. Len(activations') :
                   activations'[i].licenseId # Len(licenses')
      ]_vars

\* An Enterprise license made without an override next to a license made
\* with the override 3: quotas 999 and 3.
C12_Witness ==
    /\ resp.op = "createLicense"
    /\ resp.result.error = Undefined
    /\ \E i, j \in LicenseIds :
          /\ licenses[i].plan = "Enterprise" /\ licenses[i].maxDevices = 999
          /\ licenses[j].plan = "5 Devices" /\ licenses[j].maxDevices = 3
          /\ licenses[i].isActive /\ licenses[j].deviceCount = 0

\* C13: a create request whose plan is none of the four tiers is refused
\* as a bad request before the service is called, and no license is made.
C13_InvalidPlan ==
    [][ \A k \in GeneratedKeys : \A body \in CreateBodies :
          ( body.plan \notin PlanTiers /\ Creates(k, body) ) =>
             /\ licenses' = licenses
             /\ resp'.result.error = "BadRequestError"
             /\ errorHandler(resp'.result).status = 400
      ]_vars

\* A license is stored, and the request served last, for a plan that is no
\* tier, was refused.
C13_Witness ==
    /\ resp.op = "createLicense"
    /\ resp.result.error = "BadRequestError"
    /\ resp.result.message = "Validation failed: plan"
    /\ Len(licenses) = 1

\* C14: an accepted create request stores a license also when the key that
\* generateLicenseKey produced is already the key of a license: another
\* key is generated and the license is created under a key no license had.
C14_KeyCollisionRetried ==
    [][ \A k \in GeneratedKeys : \A body \in CreateBodies :
          ( /\ createLicenseSchema(body) = << >>
            /\ Holders(k) # { }
            /\ Creates(k, body) ) =>
             /\ resp'.result.error = Undefined
             /\ Len(licenses') = Len(licenses) + 1
             /\ Holders(licenses'[Len(licenses')].licenseKey) = { }
      ]_vars

(***************************************************************************)
(* Properties of the helpers (SpecUtil).                                   *)
(***************************************************************************)
\* the shape MACMAN-XXXXX-XXXXX-XXXXX, read off the dash-separated parts
WellShaped(key) ==
    LET parts == split(key, "-")
    IN  /\ Len(parts) = 4
        /\ parts[1] = << "M", "A", "C", "M", "A", "N" >>
        /\ \A i \in 2 .. 4 :
              /\ Len(parts[i]) = 5
              /\ \A j \in 1 .. 5 : parts[i][j] \in Letters \cup Digits

\* C15: whatever the random bytes are, the key generateLicenseKey returns
\* passes isValidLicenseKeyFormat and is MACMAN followed by three
\* dash-separated segments of exactly 5 characters of [A-Z0-9].
C15_GeneratedKeyIsValid ==
    ( input.fn = "generateLicenseKey" /\ output # << >> ) =>
       /\ isValidLicenseKeyFormat(output[1])
       /\ WellShaped(output[1])

\* A key made from bytes whose base64 text is "+wAA", "////" and "AAD7":
\* MACMAN-WAA00-00000-AAD70.
C15_Witness ==
    /\ input.fn = "generateLicenseKey"
    /\ input.arg = << << 251, 0, 0 >>, << 255, 255, 255 >>, << 0, 0, 251 >> >>
    /\ output # << >>
    /\ SubSeq(output[1], 8, 24)
         = << "W", "A", "A", "0", "0", "-", "0", "0", "0", "0", "0", "-",
              "A", "A", "D", "7", "0" >>

\* the keys named by the specification
ExampleKey(prefix, segments) == join(<< prefix >> \o segments, "-")

ExampleAccepted ==
    ExampleKey(<< "M", "A", "C", "M", "A", "N" >>,
               << << "A", "B", "C", "D", "E" >>, << "1", "2", "3", "4", "5" >>,
                  << "X", "Y", "9", "Z", "0" >> >>)

ExampleLowerCase ==
    ExampleKey(<< "m", "a", "c", "m", "a", "n" >>,
               << << "A", "B", "C", "D", "E" >>, << "1", "2", "3", "4", "5" >>,
                  << "X", "Y", "9", "Z", "0" >> >>)

ExampleShortSegment ==
    ExampleKey(<< "M", "A", "C", "M", "A", "N" >>,
               << << "A", "B", "C", "D" >>, << "1", "2", "3", "4", "5" >>,
                  << "X", "Y", "9", "Z", "0" >> >>)

ExampleTwoSegments ==
    ExampleKey(<< "M", "A", "C", "M", "A", "N" >>,
               << << "A", "B", "C", "D", "E" >>, << "1", "2", "3", "4", "5" >> >>)

\* C16: isValidLicenseKeyFormat accepts a key exactly when it is MACMAN-
\* and three dash-separated segments of 5 capitals or digits; it accepts
\* MACMAN-ABCDE-12345-XY9Z0 and rejects the lower-case prefix, the segment
\* of 4 characters and the key of two segments.
C16_KeyFormat ==
    ( input.fn = "isValidLicenseKeyFormat" /\ output # << >> ) =>
       /\ output[1] = WellShaped(input.arg)
       /\ input.arg = ExampleAccepted => output[1]
       /\ input.arg \in { ExampleLowerCase, ExampleShortSegment,
                           ExampleTwoSegments } => ~output[1]

\* Each of the four named keys is among the keys checked, and the one being
\* looked at is the key with a segment of 4 characters, rejected.
C16_Witness ==
    /\ { ExampleAccepted, ExampleLowerCase, ExampleShortSegment,
         ExampleTwoSegments } \subseteq KeyFormatInputs
    /\ input.fn = "isValidLicenseKeyFormat"
    /\ input.arg = ExampleShortSegment
    /\ output = << FALSE >>

\* major, minor and patch of the dotted versions among VersionInputs, a
\* missing minor or patch being 0 (components after the third do not count)
Components(version) ==
    CASE version = << "1", ".", "0", ".", "8" >> -> << 1, 0, 8 >>
      [] version = << "1", ".", "2", ".", "0" >> -> << 1, 2, 0 >>
      [] version = << "1", ".", "0" >> -> << 1, 0, 0 >>
      [] version = << "1", ".", "0", ".", "0" >> -> << 1, 0, 0 >>
      [] version = << "1" >> -> << 1, 0, 0 >>
      [] version = << "1", ".", "0", ".", "9" >> -> << 1, 0, 9 >>
      [] version = << "1", ".", "0", ".", "1", "0" >> -> << 1, 0, 10 >>
      [] version = << "2", ".", "1", "0", ".", "3" >> -> << 2, 10, 3 >>
      [] version = << "1", ".", "0", ".", "8", ".", "5" >> -> << 1, 0, 8 >>
      [] OTHER -> << >>

DottedVersions == { v \in VersionInputs : Components(v) # << >> }

\* release tables a check may meet: one or two published releases
ReleaseTables ==
    { << NewUpdateRow(d) >> : d \in CreateUpdateDto }
      \cup { << NewUpdateRow(pair[1]), NewUpdateRow(pair[2]) >> :
               pair \in { p \in CreateUpdateDto \X CreateUpdateDto :
                            p[1].version # p[2].version } }

\* the releases the query of checkForUpdate gives a client reporting version
UpdateOffers(table, version) ==
    FindFirstDescending(table, versionToBuildNumber(version)[1])

\* C17: versionToBuildNumber gives major*10000 + minor*100 + patch, a
\* missing minor or patch counting 0 (1.0.8 gives 10008, 1.2.0 gives
\* 10200), and versions of different text with the same components (1.0,
\* 1.0.0, 1) get the same number and the same answer from the query of
\* checkForUpdate.
C17_VersionToBuildNumber ==
    ( /\ input.fn = "versionToBuildNumber" /\ output # << >>
      /\ input.arg \in DottedVersions ) =>
       LET c == Components(input.arg)
       IN  /\ output[1] = << c[1] * 10000 + c[2] * 100 + c[3] >>
           /\ ( input.arg = << "1", ".", "0", ".", "8" >> )
                 => ( output[1] = << 10008 >> )
           /\ ( input.arg = << "1", ".", "2", ".", "0" >> )
                 => ( output[1] = << 10200 >> )
           /\ \A other \in DottedVersions :
                 Components(other) = c =>
                    /\ versionToBuildNumber(other) = output[1]
                    /\ \A table \in ReleaseTables :
                          UpdateOffers(table, other)
                            = UpdateOffers(table, input.arg)

\* Version 1.0 has got the number of 1.0.0, and a table holds a release
\* that is offered to both.
C17_Witness ==
    /\ input.fn = "versionToBuildNumber"
    /\ input.arg = << "1", ".", "0" >>
    /\ output = << << 10000 >> >>
    /\ << "1", ".", "0", ".", "0" >> \in DottedVersions
    /\ \E table \in ReleaseTables : UpdateOffers(table, input.arg) # { }

(***************************************************************************)
(* Properties of the update service (SpecUpdate).                          *)
(***************************************************************************)
UpdateIds == 1 .. Len(updates)

\* the active releases with a build number above that of a reported version
Candidates(version) ==
    { i \in UpdateIds :
        /\ updates[i].isActive
        /\ updates[i].buildNumber > versionToBuildNumber(version)[1] }

\* the check of request d is the call being served
Checks(d) ==
    /\ resp'.op = "checkForUpdate"
    /\ CheckForUpdate(d)

\* C18: checkForUpdate reports an update exactly when an active release has
\* a build number above that of the reported version, and the release it
\* returns is then a candidate of the greatest build number.
C18_LatestUpdateOffered ==
    [][ \A d \in CheckUpdateDto :
          Checks(d) =>
             /\ resp'.result.updateAvailable = ( Candidates(d.version) # { } )
             /\ Candidates(d.version) = { } => resp'.result.latestVersion = << >>
             /\ Candidates(d.version) # { } =>
                   \E i \in Candidates(d.version) :
                      /\ \A j \in Candidates(d.version) :
                            updates[j].buildNumber <= updates[i].buildNumber
                      /\ resp'.result.latestVersion[1].version
                           = updates[i].version
                      /\ resp'.result.latestVersion[1].buildNumber
                           = updates[i].buildNumber
      ]_vars

\* Two active releases are newer than the reported 1.0.8, a deactivated
\* release has a build number above both, and the higher of the two active
\* ones was offered.
C18_Witness ==
    /\ resp.op = "checkForUpdate"
    /\ resp.result.updateAvailable
    /\ updateHistory # << >>
    /\ updateHistory[Len(updateHistory)].fromVersion
         = << "1", ".", "0", ".", "8" >>
    /\ \E i, j, k \in UpdateIds :
          /\ updates[i].isActive /\ updates[j].isActive /\ ~updates[k].isActive
          /\ updates[j].buildNumber > 10008
          /\ updates[i].buildNumber > updates[j].buildNumber
          /\ updates[k].buildNumber > updates[i].buildNumber
          /\ resp.result.latestVersion[1].buildNumber = updates[i].buildNumber

\* C19: a check that offers an update writes exactly one history row, with
\* status started, the caller's userId, the reported version as fromVersion
\* and the offered version as toVersion; a check that offers none writes
\* no history row; neither changes anything else.
C19_CheckHistory ==
    [][ \A d \in CheckUpdateDto :
          Checks(d) =>
             /\ UNCHANGED << updates, licenses, activations >>
             /\ IF resp'.result.updateAvailable
                THEN /\ Len(updateHistory') = Len(updateHistory) + 1
                     /\ SubSeq(updateHistory', 1, Len(updateHistory))
                          = updateHistory
                     /\ LET row == updateHistory'[Len(updateHistory')]
                        IN  /\ row.status = "started"
                            /\ row.userId = d.userId
                            /\ row.fromVersion = d.version
                            /\ row.toVersion
                                 = resp'.result.latestVersion[1].version
                            /\ updates[row.updateId].version = row.toVersion
                ELSE updateHistory' = updateHistory
      ]_vars

\* User u1 was offered 1.0.10 and has it now: one started row from 1.0.8 to
\* 1.0.10, and the check from 1.0.10 served last offered nothing.
C19_Witness ==
    /\ resp.op = "checkForUpdate"
    /\ ~resp.result.updateAvailable
    /\ Len(updateHistory) = 1
    /\ updateHistory[1].status = "started"
    /\ updateHistory[1].userId = "u1"
    /\ updateHistory[1].fromVersion = << "1", ".", "0", ".", "8" >>
    /\ updateHistory[1].toVersion = V1010
    /\ \E i \in UpdateIds : updates[i].isActive

\* C20: createUpdate of a version that exists fails as a Conflict (409 at
\* the boundary) and leaves the stored release as it is; of a new version
\* it stores the release active with downloadCount 0; version strings stay
\* unique.
C20_CreateUpdate ==
    [][ \A d \in CreateUpdateDto :
          ( resp'.op = "createUpdate" /\ CreateUpdate(d) ) =>
             /\ updateHistory' = updateHistory
             /\ IF \E i \in UpdateIds : updates[i].version = d.version
                THEN /\ updates' = updates
                     /\ resp'.result.error = "ConflictError"
                     /\ errorHandler(resp'.result).status = 409
                ELSE /\ resp'.result.error = Undefined
                     /\ Len(updates') = Len(updates) + 1
                     /\ SubSeq(updates', 1, Len(updates)) = updates
                     /\ updates'[Len(updates')].version = d.version
                     /\ updates'[Len(updates')].buildNumber = d.buildNumber
                     /\ updates'[Len(updates')].isActive
                     /\ updates'[Len(updates')].downloadCount = 0
             /\ \A i, j \in 1 .. Len(updates') :
                   updates'[i].version = updates'[j].version => i = j
      ]_vars

(***************************************************************************)
(* Properties of the history reports (SpecHistory).                        *)
(***************************************************************************)
HistoryIds == 1 .. Len(updateHistory)

\* the started rows of the pair a report names
OpenRows(body) ==
    { i \in HistoryIds :
        /\ updateHistory[i].userId = body.userId
        /\ updateHistory[i].toVersion = body.toVersion
        /\ updateHistory[i].status = "started" }

\* the report `body`, of a status other than started, is the call served
Reports(body) ==
    /\ resp'.op = "recordHistory"
    /\ body.status # "started"
    /\ RecordHistory(body)

\* C21: a report of completed or failed for a pair that has started rows
\* closes exactly one of them, one of the latest createdAt: its status
\* becomes the reported one, its completedAt is set (to the time of the
\* call) only when the status is completed, and every other row, older
\* started rows of the pair among them, stays as it was.
C21_ClosesLatestStarted ==
    [][ \A body \in RecordHistoryBodies :
          ( OpenRows(body) # { } /\ Reports(body) ) =>
             /\ Len(updateHistory') = Len(updateHistory)
             /\ \E i \in OpenRows(body) :
                   /\ \A j \in OpenRows(body) :
                         updateHistory[j].createdAt <= updateHistory[i].createdAt
                   /\ updateHistory'[i].status = body.status
                   /\ updateHistory'[i].completedAt =
                        IF body.status = "completed" THEN now ELSE NoTime
                   /\ updateHistory'[i] =
                        [ updateHistory[i] EXCEPT
                            !.status = updateHistory'[i].status,
                            !.completedAt = updateHistory'[i].completedAt,
                            !.errorMessage = updateHistory'[i].errorMessage ]
                   /\ \A j \in HistoryIds \ { i } :
                         updateHistory'[j] = updateHistory[j]
      ]_vars

\* User u1 was offered 1.0.10 at time 0 and again at time 1 and reported
\* completion once: the later row is completed and stamped, the older one
\* is still started.
C21_Witness ==
    /\ resp.op = "recordHistory"
    /\ Len(updateHistory) = 2
    /\ updateHistory[1].userId = "u1" /\ updateHistory[2].userId = "u1"
    /\ updateHistory[1].toVersion = V1010 /\ updateHistory[2].toVersion = V1010
    /\ updateHistory[1].createdAt < updateHistory[2].createdAt
    /\ updateHistory[1].status = "started"
    /\ updateHistory[1].completedAt = NoTime
    /\ updateHistory[2].status = "completed"
    /\ updateHistory[2].completedAt # NoTime

\* C22: a report of completed or failed for a pair that has no started row
\* is answered as a success, without an error, and changes and creates no
\* history row.
C22_NoStartedRowNoOp ==
    [][ \A body \in RecordHistoryBodies :
          ( OpenRows(body) = { } /\ Reports(body) ) =>
             /\ updateHistory' = updateHistory
             /\ resp'.result.success
             /\ resp'.result.error = Undefined
             /\ UNCHANGED << updates, licenses, activations >>
      ]_vars

\* Both history rows are started rows of user u1 and none was ever closed,
\* yet the call served last is a report that was recorded: it named a pair
\* without a started row and closed nothing.
C22_Witness ==
    /\ resp.op = "recordHistory"
    /\ resp.result = HistoryRecorded
    /\ Len(updateHistory) = 2
    /\ \A i \in HistoryIds :
          /\ updateHistory[i].userId = "u1"
          /\ updateHistory[i].status = "started"
          /\ updateHistory[i].completedAt = NoTime

(***************************************************************************)
(* Properties of downloads (SpecDownload).                                 *)
(***************************************************************************)
\* the releases with this version: a set of at most one id
Releases(version) == { i \in UpdateIds : updates[i].version = version }

\* the download of `version` is the request served
Downloads(version, fileExists) ==
    /\ resp'.op = "downloadUpdate"
    /\ DownloadUpdate(version, fileExists)

\* C23: a download of a version that no release has fails with NotFound and
\* changes no release; a download of a known version raises the download
\* counter of that release by exactly one and changes nothing else; and no
\* step of any operation lowers the download counter of a release or
\* removes a release.
C23_DownloadCounter ==
    [][ /\ \A v \in ReleaseVersions : \A fileExists \in BOOLEAN :
              Downloads(v, fileExists) =>
                 /\ updateHistory' = updateHistory
                 /\ IF Releases(v) = { }
                    THEN /\ resp'.result.error = "NotFoundError"
                         /\ updates' = updates
                    ELSE \E i \in Releases(v) :
                            updates' =
                              [ updates EXCEPT ![i].downloadCount = @ + 1 ]
        /\ Len(updates') >= Len(updates)
        /\ \A i \in UpdateIds :
              /\ updates'[i].version = updates[i].version
              /\ updates'[i].downloadCount >= updates[i].downloadCount
      ]_vars

\* One release has been downloaded twice, another once and was deactivated
\* since, and the download served last named a version not published yet.
C23_Witness ==
    /\ resp.op = "downloadUpdate"
    /\ resp.result.error = "NotFoundError"
    /\ \E i, j \in UpdateIds :
          /\ updates[i].downloadCount = 2
          /\ updates[j].downloadCount = 1 /\ ~updates[j].isActive
    /\ \E v \in ReleaseVersions : Releases(v) = { }

\* the status of the response the boundary sends for a download
DownloadStatus(result) ==
    IF result.error # Undefined
    THEN errorHandler(result).status
    ELSE result.status

\* C24: a download request that ends in a failure response (the version is
\* unknown, or the artifact of a known version is missing and the response
\* is 404) leaves every download counter as it was: only served downloads
\* are counted.
C24_FailedDownloadNotCounted ==
    [][ \A v \in ReleaseVersions : \A fileExists \in BOOLEAN :
          ( Downloads(v, fileExists) /\ DownloadStatus(resp'.result) # 200 ) =>
             updates' = updates
      ]_vars

(***************************************************************************)
(* Properties of the admin routes (SpecAdmin).                             *)
(***************************************************************************)
\* C25: a request to an admin route (create, list, get, deactivate license,
\* deactivate device, license statistics, create, list, deactivate release,
\* update statistics) whose x-admin-secret header is absent, empty or not
\* the admin secret is refused as Unauthorized and leaves the licenses, the
\* activations, the releases and the history as they were.
C25_AdminGate ==
    [][ \A h \in SecretHeaders :
          ( h # << AdminSecret >> /\ AdminRequest(h) ) =>
             /\ resp'.result.error = "UnauthorizedError"
             /\ UNCHANGED << licenses, activations, updates, updateHistory >>
      ]_vars

\* A license with an active device, a release and a history row are stored,
\* and the request served last, a device deactivation, was refused.
C25_Witness ==
    /\ resp.op = "deactivateDevice"
    /\ resp.result.error = "UnauthorizedError"
    /\ \E id \in LicenseIds : licenses[id].isActive /\ ActiveRows(id) # { }
    /\ \E i \in UpdateIds : updates[i].isActive
    /\ updateHistory # << >>

\* C30: the number of active activations of a license goes down only in a
\* step of a deactivateDevice that succeeds, and then by one; no step of
\* validateLicense, deactivateLicense, createLicense, of a listing, a
\* lookup or statistics lowers it; and no step removes a license or an
\* activation row.
C30_SlotFreedOnlyByDeactivation ==
    [][ /\ Len(licenses') >= Len(licenses)
        /\ \A id \in LicenseIds :
              licenses'[id].licenseKey = licenses[id].licenseKey
        /\ Len(activations') >= Len(activations)
        /\ \A i \in 1 .. Len(activations) :
              /\ activations'[i].licenseId = activations[i].licenseId
              /\ activations'[i].machineId = activations[i].machineId
        /\ \A id \in LicenseIds :
              Cardinality(ActiveRowsAfter(id)) < Cardinality(ActiveRows(id)) =>
                 /\ resp'.op = "deactivateDevice"
                 /\ resp'.result.error = Undefined
                 /\ Cardinality(ActiveRowsAfter(id))
                      = Cardinality(ActiveRows(id)) - 1
      ]_vars

\* A license with two activations, one deactivated and one active, was
\* deactivated itself: the active activation still holds its slot.
C30_Witness ==
    /\ resp.op = "deactivateLicense"
    /\ resp.result.error = Undefined
    /\ \E id \in LicenseIds :
          /\ ~licenses[id].isActive
          /\ Cardinality(ActiveRows(id)) = 1
          /\ \E i \in 1 .. Len(activations) :
                /\ activations[i].licenseId = id
                /\ ~activations[i].isActive
                /\ activations[i].deactivatedAt # NoTime

(***************************************************************************)
(* Properties of the results of validateLicense (Spec).                    *)
(***************************************************************************)
\* C29: no validateLicense call, whatever the stored licenses and
\* activations and whatever the request, returns errorType
\* machine_mismatch.
C29_NoMachineMismatch ==
    resp.op = "validateLicense" => resp.result.errorType # "machine_mismatch"

\* The one slot of a license with maxDevices = 1 is held by a machine, no
\* other license is full, and the validation served last, from another
\* machine, was refused for the quota and not as a mismatch.
C29_Witness ==
    /\ resp.op = "validateLicense"
    /\ Failed(resp.result, "max_devices_reached")
    /\ \E id \in LicenseIds :
          /\ licenses[id].maxDevices = 1
          /\ Usable(id)
          /\ Cardinality(ActiveRows(id)) = 1
          /\ \A other \in LicenseIds \ { id } :
                Cardinality(ActiveRows(other)) < licenses[other].maxDevices

(***************************************************************************)
(* Properties of validateLicense under concurrent requests (SpecConc).     *)
(***************************************************************************)
\* call c returns in this step, and it is a validateLicense call
ValidationReturns(c) ==
    /\ calls[c].pc # "done"
    /\ calls'[c].pc = "done"
    /\ calls'[c].op = "validateLicense"

FailureTypes == { "invalid_key", "max_devices_reached", "inactive", "expired" }

\* the shape of a result r of a validation of `key` that returns in this
\* step
ResultShape(r, key) ==
    /\ r.error = Undefined
    /\ ( r.purchaseUrl # Undefined ) = ( r.errorType = "max_devices_reached" )
    /\ IF r.valid
       THEN /\ r.errorType = Undefined
            /\ Len(r.data) = 1
            /\ r.data[1].licenseKey = key
            /\ \A id \in Holders(key) :
                  /\ r.data[1].plan = licenses'[id].plan
                  /\ r.data[1].maxDevices = licenses'[id].maxDevices
                  /\ r.data[1].isActive = licenses'[id].isActive
                  /\ r.data[1].deviceCount = Cardinality(ActiveRowsAfter(id))
                  /\ r.data[1].deviceCount <= licenses'[id].maxDevices
       ELSE /\ r.errorType \in FailureTypes
            /\ r.data = << >>

\* C28: every result of validateLicense has one of two shapes.  A result
\* with valid = false has an errorType among invalid_key,
\* max_devices_reached, inactive, expired and no data; a result with
\* valid = true has no errorType and has data: the key, plan, maxDevices
\* and isActive of the license and a deviceCount that is the number of
\* active activations of the license when the call returns and is at most
\* maxDevices.  purchaseUrl is there exactly on max_devices_reached.
C28_ResultShape ==
    [][ \A c \in DOMAIN calls :
          ValidationReturns(c) =>
             ResultShape(calls'[c].result, calls'[c].data.licenseKey)
      ]_vars

\* The statement of C28 for calls that run one after the other (Spec).
C28_ResultShapeSequential ==
    [][ \A d \in ValidateLicenseDto :
          ( resp'.op = "validateLicense" /\ ValidateLicense(d) ) =>
             ResultShape(resp'.result, d.licenseKey)
      ]_vars

\* call c is a validation that has written its new activation and not yet
\* the count of the license: where an abandoned validation stays
WroteActivationOnly(c) ==
    /\ calls[c].op = "validateLicense"
    /\ calls[c].pc = "count"

\* call r is a validation of the key and machine of call c
SameRequest(c, r) ==
    /\ r # c
    /\ calls[r].op = "validateLicense"
    /\ calls[r].data.licenseKey = calls[c].data.licenseKey
    /\ calls[r].data.machineId = calls[c].data.machineId

\* C27: the activation written by a validation that has not gone on to
\* write the count stays in storage, and while it is active another
\* validation of the same key and machine that reads the license after it
\* takes the already-bound step: it finds that activation, appends none,
\* leaves the number of active activations and the license as they are,
\* and returns valid.
C27_AbandonedValidationRetry ==
    [][ \A c \in DOMAIN calls :
          WroteActivationOnly(c) =>
             LET id == calls[c].license.id
                 m == calls[c].data.machineId
             IN  /\ RowsOf(id, m) # { }
                 /\ \A i \in RowsOf(id, m) :
                       /\ i <= Len(activations')
                       /\ activations'[i].licenseId = id
                       /\ activations'[i].machineId = m
                 /\ \A r \in DOMAIN calls :
                       ( SameRequest(c, r) /\ Bound(id, m) ) =>
                          /\ ( calls[r].pc = "find" /\ ValidateFind(r) ) =>
                                /\ calls'[r].pc = "touch"
                                /\ calls'[r].target \in RowsOf(id, m)
                                /\ UNCHANGED << licenses, activations >>
                          /\ ( calls[r].pc = "touch" /\ ValidateTouch(r) ) =>
                                /\ calls'[r].result.valid
                                /\ calls'[r].result.message
                                     = "License validated successfully"
                                /\ Len(activations') = Len(activations)
                                /\ ActiveRowsAfter(id) = ActiveRows(id)
                                /\ licenses' = licenses
      ]_vars

\* The first validation of machine m2 wrote the activation and not the
\* count; the second one, of the same key and machine, has returned valid
\* through the already-bound step.  The pair has one activation, and the
\* count of the license is one below the number of its active activations.
C27_Witness ==
    /\ WroteActivationOnly(1)
    /\ SameRequest(1, 2)
    /\ calls[2].pc = "done" /\ calls[2].branch = "existing"
    /\ calls[2].result.valid
    /\ calls[1].data.machineId = "m2"
    /\ Cardinality(RowsOf(calls[1].license.id, "m2")) = 1
    /\ licenses[calls[1].license.id].deviceCount
         = Cardinality(ActiveRows(calls[1].license.id)) - 1

(***************************************************************************)
(* Properties of the storage round trips of validateLicense (SpecLookup).  *)
(***************************************************************************)
\* call c takes a step
Steps(c) == calls'[c] # calls[c]

\* C26: a validateLicense call that ends in a business failure returns a
\* result (valid = false, the errorType of the failure) and throws nothing,
\* and none of its steps writes a license or an activation.  For a
\* malformed key the call returns invalid_key in the step in which it is
\* made: it never waits for a lookup and holds no license read from
\* storage.  For a well-formed key the failure (invalid_key for an unknown
\* key, inactive, expired, max_devices_reached) is returned in the step
\* after the lookup.
C26_BusinessFailureIsResult ==
    [][ \A c \in DOMAIN calls :
          ( calls'[c].op = "validateLicense" /\ Steps(c) ) =>
             LET d == calls'[c].data
                 expected == ExpectedOutcome(d)
                 r == calls'[c].result
             IN  /\ ~isValidLicenseKeyFormat(d.licenseKey) =>
                       /\ calls[c].pc = "idle" /\ calls'[c].pc = "done"
                       /\ calls'[c].license = NoLicense
                 /\ ( calls[c].pc \in { "idle", "find" }
                      /\ ( calls[c].pc = "find"
                           \/ ~isValidLicenseKeyFormat(d.licenseKey) )
                      /\ expected[1] # Undefined ) =>
                       /\ calls'[c].pc = "done"
                       /\ ~r.valid
                       /\ r.error = Undefined
                       /\ r.errorType = expected[1]
                       /\ r.message = expected[2]
                 /\ ( calls'[c].pc = "done" /\ ~r.valid ) =>
                       /\ calls[c].pc \in { "idle", "find" }
                       /\ UNCHANGED << licenses, activations >>
                 /\ calls[c].pc \in { "idle", "find" } =>
                       UNCHANGED << licenses, activations >>
      ]_vars

\* All three kinds of refusal after a lookup and the refusal without one
\* have happened: one call returned invalid_key for the malformed key
\* without a license read, the other was refused by the expired license
\* that machine m1 holds a slot of, and the second license is deactivated.
C26_Witness ==
    /\ \E c \in DOMAIN calls :
          /\ calls[c].pc = "done" /\ calls[c].branch = "format"
          /\ Failed(calls[c].result, "invalid_key")
          /\ calls[c].license = NoLicense
    /\ \E c \in DOMAIN calls :
          /\ calls[c].pc = "done" /\ calls[c].branch = "expired"
          /\ Failed(calls[c].result, "expired")
    /\ \E id \in LicenseIds : ~licenses[id].isActive
    /\ now > 0

(***************************************************************************)
(* Properties of deactivated releases (SpecUpdate).                        *)
(***************************************************************************)
\* the releases with a build number above that of a reported version
NewerReleases(version) ==
    { i \in UpdateIds :
        updates[i].buildNumber > versionToBuildNumber(version)[1] }

\* C31: a release that was deactivated stays deactivated and keeps its
\* version, and no checkForUpdate offers the version of a deactivated
\* release, whatever version the client reports; a check for which every
\* release of a higher build number is deactivated answers
\* updateAvailable = false and writes no history row.
C31_DeactivatedNeverOffered ==
    [][ /\ \A i \in UpdateIds :
             /\ i \in 1 .. Len(updates')
             /\ updates'[i].version = updates[i].version
             /\ ~updates[i].isActive => ~updates'[i].isActive
        /\ ( resp'.op = "deactivateUpdate" /\ resp'.result.error = Undefined ) =>
             \E i \in UpdateIds :
                /\ ~updates'[i].isActive
                /\ \A j \in UpdateIds \ { i } : updates'[j] = updates[j]
        /\ \A d \in CheckUpdateDto :
             Checks(d) =>
                /\ resp'.result.updateAvailable =>
                      \A i \in UpdateIds :
                         ~updates[i].isActive =>
                            resp'.result.latestVersion[1].version
                              # updates[i].version
                /\ ( \A i \in NewerReleases(d.version) : ~updates[i].isActive ) =>
                      /\ resp'.result = NoUpdate
                      /\ updateHistory' = updateHistory
      ]_vars

\* Release 1.2.0 was offered to a client, then every release was
\* deactivated, and the check served last found nothing, although releases
\* of a build number above every reported version are stored.
C31_Witness ==
    /\ resp.op = "checkForUpdate"
    /\ resp.result = NoUpdate
    /\ Len(updates) >= 2
    /\ \A i \in UpdateIds : ~updates[i].isActive
    /\ \E i \in UpdateIds : updates[i].buildNumber = 10200
    /\ Len(updateHistory) = 1
    /\ updateHistory[1].toVersion = V120

(***************************************************************************)
(* Properties of what the license service never writes (SpecAdmin).        *)
(***************************************************************************)
\* C32: no step of validateLicense, deactivateLicense, deactivateDevice,
\* of a lookup, a listing or statistics, and no later createLicense,
\* changes the maxDevices, the plan or the licenseKey of a stored license.
C32_QuotaFixedAtCreation ==
    [][ \A id \in LicenseIds :
          /\ id \in 1 .. Len(licenses')
          /\ licenses'[id].maxDevices = licenses[id].maxDevices
          /\ licenses'[id].plan = licenses[id].plan
          /\ licenses'[id].licenseKey = licenses[id].licenseKey
      ]_vars

\* A license of plan "2 Devices" was validated from two machines, one of
\* them was deactivated, the license was deactivated, and it was read by
\* key last: it still has the quota of its plan.
C32_Witness ==
    /\ resp.op = "getLicenseInfo"
    /\ resp.result.error = Undefined
    /\ \E id \in LicenseIds :
          /\ licenses[id].licenseKey = KeyA
          /\ licenses[id].plan = "2 Devices"
          /\ licenses[id].maxDevices = 2
          /\ ~licenses[id].isActive
          /\ licenses[id].activatedAt # NoTime
          /\ licenses[id].deviceCount = 1
          /\ Cardinality(ActiveRows(id)) = 1
          /\ \E i \in 1 .. Len(activations) :
                activations[i].licenseId = id /\ ~activations[i].isActive

\* C33: no step sets isActive of a license back to true, and a
\* validateLicense with the key of a deactivated license, from a machine
\* that holds an active activation or from any other, returns
\* valid = false with errorType inactive and writes neither an activation
\* nor the license.
C33_DeactivationPermanent ==
    [][ /\ \A id \in LicenseIds :
             ~licenses[id].isActive => ~licenses'[id].isActive
        /\ \A d \in AdminValidations :
             ( resp'.op = "validateLicense" /\ ValidateLicense(d) ) =>
                \A id \in Holders(d.licenseKey) :
                   ~licenses[id].isActive =>
                      /\ Failed(resp'.result, "inactive")
                      /\ resp'.result.error = Undefined
                      /\ resp'.result.data = << >>
                      /\ UNCHANGED << licenses, activations >>
      ]_vars

\* Machines m1 and m2 both hold an active activation of a license that
\* was deactivated afterwards, and the validation served last, from one of
\* them, was refused as inactive.
C33_Witness ==
    /\ resp.op = "validateLicense"
    /\ Failed(resp.result, "inactive")
    /\ \E id \in Holders(KeyA) :
          /\ ~licenses[id].isActive
          /\ Bound(id, "m1") /\ Bound(id, "m2")
          /\ licenses[id].deviceCount = 2

\* C34: no step sets isActive of an activation back to true or changes an
\* inactive activation in any way, and a validateLicense that succeeds for
\* a machine whose activations of the license are all inactive appends a
\* new active activation of that license and machine and leaves every
\* older row as it was.
C34_ActivationNeverReactivated ==
    [][ /\ \A i \in 1 .. Len(activations) :
             ~activations[i].isActive =>
                /\ i \in 1 .. Len(activations')
                /\ activations'[i] = activations[i]
        /\ \A d \in AdminValidations :
             ( resp'.op = "validateLicense" /\ ValidateLicense(d) ) =>
                \A id \in Holders(d.licenseKey) :
                   ( /\ RowsOf(id, d.machineId) # { }
                     /\ ~Bound(id, d.machineId)
                     /\ resp'.result.valid ) =>
                      /\ Len(activations') = Len(activations) + 1
                      /\ SubSeq(activations', 1, Len(activations)) = activations
                      /\ activations'[Len(activations')].licenseId = id
                      /\ activations'[Len(activations')].machineId = d.machineId
                      /\ activations'[Len(activations')].isActive
                      /\ activations'[Len(activations')].deactivatedAt = NoTime
      ]_vars

\* Machine m1 was activated, deactivated and validated again: it has an
\* inactive activation and a newer active one, and the validation served
\* last succeeded.
C34_Witness ==
    /\ resp.op = "validateLicense"
    /\ resp.result.valid
    /\ Len(activations) = 2
    /\ activations[1].machineId = "m1" /\ activations[2].machineId = "m1"
    /\ activations[1].licenseId = activations[2].licenseId
    /\ ~activations[1].isActive /\ activations[1].deactivatedAt # NoTime
    /\ activations[2].isActive /\ activations[2].deactivatedAt = NoTime

(***************************************************************************)
(* Properties of the life of a history row (SpecHistory).                  *)
(***************************************************************************)
\* C35: in every step a history row keeps its status or goes from started
\* to completed or from started to failed; a row that is completed or
\* failed is the same after every step; rows are never removed; and
\* completedAt is set on exactly the rows whose status is completed.
C35_HistoryStatusOneWay ==
    [][ /\ \A i \in HistoryIds :
             /\ i \in 1 .. Len(updateHistory')
             /\ \/ updateHistory'[i].status = updateHistory[i].status
                \/ /\ updateHistory[i].status = "started"
                   /\ updateHistory'[i].status \in { "completed", "failed" }
             /\ updateHistory[i].status # "started" =>
                   updateHistory'[i] = updateHistory[i]
        /\ \A i \in 1 .. Len(updateHistory') :
             /\ updateHistory'[i].status \in { "started", "completed", "failed" }
             /\ ( updateHistory'[i].completedAt # NoTime )
                  <=> ( updateHistory'[i].status = "completed" )
      ]_vars

\* User u1 was offered 1.0.10 twice; one row was closed as completed at
\* time 0 and the other as failed, the clock has moved on, and the report
\* served last found the rows of its pair closed or closed the second.
C35_Witness ==
    /\ resp.op = "recordHistory"
    /\ resp.result = HistoryRecorded
    /\ now > 0
    /\ Len(updateHistory) = 2
    /\ \E i, j \in HistoryIds :
          /\ updateHistory[i].status = "completed"
          /\ updateHistory[i].completedAt = 0
          /\ updateHistory[j].status = "failed"
          /\ updateHistory[j].completedAt = NoTime
          /\ updateHistory[j].errorMessage = "install failed"
          /\ updateHistory[i].userId = updateHistory[j].userId
          /\ updateHistory[i].toVersion = updateHistory[j].toVersion

(***************************************************************************)
(* Properties of concurrent deactivations (SpecConc).                      *)
(***************************************************************************)
\* C36: when two deactivateDevice calls that deactivated two different
\* machines of the same license have both returned, however their storage
\* steps interleaved, both machines are without an active activation and
\* the deviceCount of the license is two lower than the two it was before
\* the calls and equal to the number of its active activations.
C36_ConcurrentDeactivationsCount ==
    \A c1, c2 \in DOMAIN calls :
       ( /\ AllReturned
         /\ calls[c1].op = "deactivateDevice"
         /\ calls[c1].branch = "deactivate"
         /\ calls[c2].op = "deactivateDevice"
         /\ calls[c2].branch = "deactivate"
         /\ calls[c1].data.licenseKey = calls[c2].data.licenseKey
         /\ calls[c1].data.machineId # calls[c2].data.machineId ) =>
          \A id \in Holders(calls[c1].data.licenseKey) :
             /\ ~Bound(id, calls[c1].data.machineId)
             /\ ~Bound(id, calls[c2].data.machineId)
             /\ licenses[id].deviceCount = 2 - 2
             /\ licenses[id].deviceCount = Cardinality(ActiveRows(id))

(***************************************************************************)
(* Properties of the two version orders (SpecCompare).                     *)
(***************************************************************************)
\* the numbers of a version of three components, each a non-empty string
\* of digits; the empty sequence for any other text
NumericComponents(version) ==
    LET parts == split(version, ".")
    IN  IF /\ Len(parts) = 3
           /\ \A i \in 1 .. 3 : parts[i] # << >> /\ Number(parts[i]) # NaN
        THEN [ i \in 1 .. 3 |-> Number(parts[i])[1] ]
        ELSE << >>

\* three numeric components, minor and patch below 100
SmallVersion(version) ==
    LET c == NumericComponents(version)
    IN  c # << >> /\ c[2] < 100 /\ c[3] < 100

\* v1 is before v2 component by component, the first difference deciding
ComponentwiseLess(c1, c2) ==
    \/ c1[1] < c2[1]
    \/ c1[1] = c2[1] /\ c1[2] < c2[2]
    \/ c1[1] = c2[1] /\ c1[2] = c2[2] /\ c1[3] < c2[3]

\* C37: for two versions of three numeric components with minor and patch
\* below 100, compareVersions returns -1 exactly when the first is before
\* the second component by component and exactly when its
\* versionToBuildNumber is the smaller, 0 exactly when the components and
\* the build numbers are equal, and 1 otherwise; with a component of 100
\* the two disagree: 1.0.100 and 1.1.0 get the same build number and
\* compare as different.
C37_BuildNumberOrderAgrees ==
    ( input.fn = "compareVersions" /\ output # << >> ) =>
       LET v1 == input.arg[1]
           v2 == input.arg[2]
           b1 == versionToBuildNumber(v1)
           b2 == versionToBuildNumber(v2)
       IN  /\ output[1] \in { -1, 0, 1 }
           /\ ( SmallVersion(v1) /\ SmallVersion(v2) ) =>
                 LET c1 == NumericComponents(v1)
                     c2 == NumericComponents(v2)
                 IN  /\ ( output[1] = -1 ) <=> ComponentwiseLess(c1, c2)
                     /\ ( output[1] = -1 ) <=> ( b1[1] < b2[1] )
                     /\ ( output[1] = 0 ) <=> ( c1 = c2 )
                     /\ ( output[1] = 0 ) <=> ( b1[1] = b2[1] )
                     /\ ( output[1] = 1 ) <=> ( b1[1] > b2[1] )
           /\ ( /\ v1 = << "1", ".", "0", ".", "1", "0", "0" >>
                /\ v2 = << "1", ".", "1", ".", "0" >> ) =>
                 /\ output[1] = -1
                 /\ b1 = b2
                 /\ b1 = << 10100 >>

\* 1.0.9 was compared with 1.0.10: the first is the smaller, as its build
\* number 10009 is below 10010; and the table of inputs holds 1.0.100 and
\* 1.1.0, which share a build number.
C37_Witness ==
    /\ input = UtilInput("compareVersions", << V109, V1010 >>)
    /\ output = << -1 >>
    /\ versionToBuildNumber(V109) = << 10009 >>
    /\ versionToBuildNumber(V1010) = << 10010 >>
    /\ \E a, b \in CompareInputs :
          /\ a # b
          /\ ~SmallVersion(a)
          /\ versionToBuildNumber(a) = versionToBuildNumber(b)
          /\ compareVersions(a, b) # 0

(***************************************************************************)
(* Properties of the reports of 'started' (SpecHistory).                   *)
(***************************************************************************)
\* C38: a report with status started is answered with success and changes
\* neither a history row nor anything else stored; a history row is
\* created only by a checkForUpdate that offers an update, with status
\* started, and no row returns to started.
C38_StartedReportChangesNothing ==
    [][ /\ \A body \in RecordHistoryBodies :
             ( /\ body.status = "started"
               /\ resp'.op = "recordHistory"
               /\ RecordHistory(body) ) =>
                /\ resp'.result.success
                /\ resp'.result.error = Undefined
                /\ UNCHANGED << updateHistory, updates, licenses,
                                activations, now >>
        /\ Len(updateHistory') >= Len(updateHistory)
        /\ Len(updateHistory') > Len(updateHistory) =>
             /\ resp'.op = "checkForUpdate"
             /\ resp'.result.updateAvailable
             /\ Len(updateHistory') = Len(updateHistory) + 1
             /\ updateHistory'[Len(updateHistory')].status = "started"
        /\ \A i \in HistoryIds :
             updateHistory'[i].status = "started" =>
                updateHistory'[i] = updateHistory[i]
      ]_vars

\* User u1 was offered an update, which left one started row; the report
\* of started served last was acknowledged and the row is as the check
\* created it.
C38_Witness ==
    /\ resp.op = "recordHistory"
    /\ resp.result = HistoryAccepted
    /\ now > 0
    /\ Len(updateHistory) = 1
    /\ updateHistory[1].status = "started"
    /\ updateHistory[1].userId = "u1"
    /\ updateHistory[1].createdAt = 0
    /\ updateHistory[1].completedAt = NoTime
    /\ updateHistory[1].errorMessage = Undefined

====
